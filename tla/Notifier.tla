------------------------------- MODULE Notifier -------------------------------
(***************************************************************************)
(* NotifyFinding of notify.Telegram and of notify.Webhook, which Engine.   *)
(* ingest starts in a goroutine of its own for every finding.  Both look   *)
(* up and set the time of the last alert with the same key under mu, send  *)
(* without it, and count the result under it again.  The webhook forgets   *)
(* all other keys when it knows too many, and resolves its host before it  *)
(* posts.  A dry run writes a line instead.  NotifyText (the test buttons)  *)
(* only sends; a notifier that is not configured does nothing.             *)
(*                                                                         *)
(* Time is kept as ages in ticks: seen[k] is time.Since(seen[k]), at most  *)
(* Window (60s).  A send lasts at most Timeout (the client's 8s): time     *)
(* does not pass while one is overdue.  The lookup has no such bound.  The *)
(* formatting between the lookup of the key and the send takes no time.    *)
(*                                                                         *)
(* lastTry and tried are history: no code reads them.                      *)
(***************************************************************************)
EXTENDS Integers, FiniteSetsExt

CONSTANTS
    Findings,       \* findings: records of rule, src and dst
    Alerts,         \* bound: the numbers of the findings raised
    Window,         \* 60 seconds
    Timeout,        \* 8 seconds
    MaxKeys         \* keys the webhook remembers (2000)

ASSUME NotifierAssumption ==
    /\ Alerts \subseteq Nat /\ IsFiniteSet(Alerts)
    /\ Window \in Nat /\ Timeout \in Nat /\ MaxKeys \in Nat \ {0}
    /\ Timeout < Window

VARIABLES
    isWebhook,      \* it is a notify.Webhook, else a notify.Telegram
    dry,            \* t.dry
    seen,           \* t.seen: per key, the age of its entry
    sent,           \* t.sent
    last,           \* t.last: NoAlert, AnError, or the number of the alert it names
    npc,            \* per alert: where its goroutine is
    finding,        \* per alert: f, once it is raised
    age,            \* per alert: how long its send has lasted
    lastTry,        \* history: per key, the time since it was last tried
    tried           \* history: all keys ever tried

noteVars == <<isWebhook, dry, sent, last>>
tryVars == <<seen, lastTry, tried>>
notifierVars == <<tryVars, noteVars, npc, finding, age>>

-----------------------------------------------------------------------------
KeyFor(f) == <<f.rule, f.src, f.dst>>
AlertKeys == {KeyFor(f) : f \in Findings}

NoAlert == -1
AnError == -2
NoFinding == [rule |-> "", src |-> "", dst |-> ""]

NotifierInit ==
    /\ isWebhook \in BOOLEAN /\ dry \in BOOLEAN
    /\ seen = [k \in {} |-> 0]
    /\ sent = 0 /\ last = NoAlert
    /\ npc = [n \in Alerts |-> "none"]
    /\ finding = [n \in Alerts |-> NoFinding]
    /\ age = [n \in Alerts |-> 0]
    /\ lastTry = [k \in AlertKeys |-> Window]
    /\ tried = {}

\* go e.Telegram.NotifyFinding(f), in the order the findings were raised.
Raise(n) ==
    /\ npc[n] = "none" /\ \A m \in Alerts : m < n => npc[m] # "none"
    /\ npc' = [npc EXCEPT ![n] = "started"]
    /\ \E f \in Findings : finding' = [finding EXCEPT ![n] = f]
    /\ UNCHANGED <<tryVars, noteVars, age>>

\* Bug: the test and the entry are two critical sections: the first finds
\* nothing while another alert of the same key is between the two.
RecentRacy(k) == k \in DOMAIN seen /\ seen[k] < Window /\ seen[k] > 0

\* The key was tried less than 60s ago.
Recent(k) == k \in DOMAIN seen /\ seen[k] < Window

\* The webhook knows too many keys.
Forgets(known) == isWebhook /\ Cardinality(known) > MaxKeys

\* t.seen[key] = time.Now(), and what the webhook keeps of the others.
Remember(k) ==
    LET known == DOMAIN seen \cup {k}
    IN  /\ seen' = [j \in IF Forgets(known) THEN {k} ELSE known |->
                       IF j = k THEN 0 ELSE seen[j]]
        /\ lastTry' = [lastTry EXCEPT ![k] = 0]
        /\ tried' = tried \cup {k}

AfterCheck == CASE dry -> "dry" [] ~dry /\ isWebhook -> "lookup" [] OTHER -> "send"

\* The first critical section: a finding whose key is recent is dropped.
Check(n) ==
    LET k == KeyFor(finding[n])
    IN  /\ npc[n] = "started"
        /\ IF Recent(k)
           THEN /\ npc' = [npc EXCEPT ![n] = "silenced"]
                /\ UNCHANGED tryVars
           ELSE /\ npc' = [npc EXCEPT ![n] = AfterCheck]
                /\ Remember(k)
        /\ UNCHANGED <<noteVars, finding, age>>

DryRun(n) ==
    /\ npc[n] = "dry"
    /\ npc' = [npc EXCEPT ![n] = "ok"]
    /\ UNCHANGED <<tryVars, noteVars, finding, age>>

\* PinWebhookDial: the host resolves to addresses that are allowed, or not.
LookupHost(n) ==
    /\ npc[n] = "lookup"
    /\ \E next \in {"send", "failed"} : npc' = [npc EXCEPT ![n] = next]
    /\ UNCHANGED <<tryVars, noteVars, finding, age>>

\* The peer answers, well or badly.
Answer(n) ==
    /\ npc[n] = "send"
    /\ \E next \in {"ok", "failed"} : npc' = [npc EXCEPT ![n] = next]
    /\ UNCHANGED <<tryVars, noteVars, finding, age>>

\* Bug: a client without a timeout.
GiveUpNever(n) == FALSE

\* The client gives up.
GiveUp(n) ==
    /\ npc[n] = "send" /\ age[n] = Timeout
    /\ npc' = [npc EXCEPT ![n] = "failed"]
    /\ UNCHANGED <<tryVars, noteVars, finding, age>>

CountSuccess(n) == sent' = sent + 1 /\ last' = n

CountFailure(n) == last' = AnError /\ UNCHANGED sent

\* The last critical section.
Report(n) ==
    /\ \/ npc[n] = "ok" /\ CountSuccess(n) /\ npc' = [npc EXCEPT ![n] = "sent"]
       \/ npc[n] = "failed" /\ CountFailure(n) /\ npc' = [npc EXCEPT ![n] = "lost"]
    /\ UNCHANGED <<isWebhook, dry, tryVars, finding, age>>

Older(a, max) == IF a < max THEN a + 1 ELSE max

Tick ==
    /\ \A n \in Alerts : npc[n] = "send" => age[n] < Timeout
    /\ seen' = [k \in DOMAIN seen |-> Older(seen[k], Window)]
    /\ lastTry' = [k \in AlertKeys |-> Older(lastTry[k], Window)]
    /\ age' = [n \in Alerts |-> IF npc[n] = "send" THEN age[n] + 1 ELSE age[n]]
    /\ UNCHANGED <<noteVars, npc, finding, tried>>

Notify(n) == Check(n) \/ DryRun(n) \/ LookupHost(n) \/ Answer(n) \/ GiveUp(n) \/ Report(n)

NotifierNext == Tick \/ \E n \in Alerts : Raise(n) \/ Notify(n)

NotifierSpec == NotifierInit /\ [][NotifierNext]_notifierVars

\* Goroutines are scheduled, a lookup ends, time passes and the client gives up;
\* nothing makes the peer answer, nor a finding be raised.
NotifierFairSpec ==
    /\ NotifierSpec
    /\ WF_notifierVars(Tick)
    /\ \A n \in Alerts :
          WF_notifierVars(Check(n) \/ DryRun(n) \/ LookupHost(n) \/ GiveUp(n) \/ Report(n))

-----------------------------------------------------------------------------
NotifierPCs == {"none", "started", "silenced", "dry", "lookup", "send", "ok", "failed", "sent", "lost"}

\* Type invariant of a notifier (telegram.go:17-26, webhook.go:21-29).
NotifierTypeOK ==
    /\ isWebhook \in BOOLEAN /\ dry \in BOOLEAN
    /\ DOMAIN seen \subseteq AlertKeys /\ \A k \in DOMAIN seen : seen[k] \in 0 .. Window
    /\ isWebhook => Cardinality(DOMAIN seen) <= MaxKeys
    /\ sent \in Nat /\ last \in {NoAlert, AnError} \cup Alerts
    /\ npc \in [Alerts -> NotifierPCs]
    /\ finding \in [Alerts -> Findings \cup {NoFinding}]
    /\ age \in [Alerts -> 0 .. Timeout]
    /\ lastTry \in [AlertKeys -> 0 .. Window]
    /\ DOMAIN seen \subseteq tried /\ tried \subseteq AlertKeys

Tried(n) == npc[n] = "started" /\ npc'[n] \in {"dry", "lookup", "send"}

\* The same alert is never tried twice within 60s, whatever order the goroutines
\* of its findings run in; the webhook may do so once there are more different
\* alerts than it remembers (telegram.go:75-81, webhook.go:85-94).
SpacedOut ==
    [][\A n \in Alerts :
          Tried(n) => \/ lastTry[KeyFor(finding[n])] = Window
                      \/ isWebhook /\ Cardinality(tried) > MaxKeys]_notifierVars

\* Every finding's goroutine ends, also when the peer never answers
\* (telegram.go:46, webhook.go:49).
NotifyEnds ==
    \A n \in Alerts : npc[n] = "started" ~> npc[n] \in {"silenced", "sent", "lost"}
=============================================================================
