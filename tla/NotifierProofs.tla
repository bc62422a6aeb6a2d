---------------------------- MODULE NotifierProofs ----------------------------
(***************************************************************************)
(* For every set of findings, any number of alerts and every window: an    *)
(* alert is not tried again within the window, unless the webhook has had  *)
(* to forget, and what the webhook remembers is bounded.                   *)
(***************************************************************************)
EXTENDS Notifier, FiniteSetTheorems, TLAPS

-----------------------------------------------------------------------------
(* The inductive invariant.                                                *)

\* A goroutine has the finding that it was started with.
FindingsGiven == \A n \in Alerts : npc[n] # "none" => finding[n] \in Findings

\* What is remembered of a key is when it was last tried; a key tried within the
\* window is only forgotten by a webhook that has tried more than MaxKeys keys.
MemoryIsTrue ==
    /\ IsFiniteSet(tried)
    /\ \A k \in DOMAIN seen : seen[k] = lastTry[k]
    /\ \A k \in AlertKeys \ DOMAIN seen :
          lastTry[k] < Window => isWebhook /\ Cardinality(tried) > MaxKeys

NotifierInv == NotifierTypeOK /\ FindingsGiven /\ MemoryIsTrue

-----------------------------------------------------------------------------
(* Lemmas.                                                                 *)

\* The key of a finding is one of the keys (telegram.go:74).
LEMMA KeyIsKnown ==
    ASSUME NEW f \in Findings
    PROVE  KeyFor(f) \in AlertKeys
BY DEF AlertKeys

\* Adding a key to what was tried makes it no smaller.
LEMMA TriedGrows ==
    ASSUME IsFiniteSet(tried), NEW k
    PROVE  /\ IsFiniteSet(tried \cup {k})
           /\ Cardinality(tried) \in Nat /\ Cardinality(tried \cup {k}) \in Nat
           /\ Cardinality(tried) <= Cardinality(tried \cup {k})
<1>1. IsFiniteSet(tried \cup {k})
  BY FS_AddElement
<1>2. Cardinality(tried) \in Nat /\ Cardinality(tried \cup {k}) \in Nat
  BY <1>1, FS_CardinalityType
<1>3. Cardinality(tried) <= Cardinality(tried \cup {k})
  BY <1>1, FS_Subset
<1> QED BY <1>1, <1>2, <1>3

\* Remember keeps the memory true: the key is at age 0 with its history, and what
\* the webhook forgets it forgets among more than MaxKeys keys
\* (webhook.go:85-94, telegram.go:80).
LEMMA RememberKeepsMemory ==
    ASSUME NotifierInv, NEW k \in AlertKeys, Remember(k), isWebhook' = isWebhook
    PROVE  /\ MemoryIsTrue'
           /\ DOMAIN seen' \subseteq tried' /\ tried' \subseteq AlertKeys
           /\ \A j \in DOMAIN seen' : seen'[j] \in 0 .. Window
           /\ isWebhook' => Cardinality(DOMAIN seen') <= MaxKeys
           /\ lastTry' \in [AlertKeys -> 0 .. Window]
<1> DEFINE known == DOMAIN seen \cup {k}
           kept == IF Forgets(known) THEN {k} ELSE known
<1>0. /\ Window \in Nat /\ MaxKeys \in Nat \ {0}
      /\ DOMAIN seen \subseteq tried /\ tried \subseteq AlertKeys
      /\ lastTry \in [AlertKeys -> 0 .. Window]
      /\ IsFiniteSet(tried)
  BY NotifierAssumption DEF NotifierInv, NotifierTypeOK, MemoryIsTrue
<1>1. /\ seen' = [j \in kept |-> IF j = k THEN 0 ELSE seen[j]]
      /\ lastTry' = [lastTry EXCEPT ![k] = 0]
      /\ tried' = tried \cup {k}
  BY DEF Remember
<1>2. known \subseteq tried' /\ kept \subseteq known /\ k \in kept
  BY <1>0, <1>1
<1>3. DOMAIN seen' = kept
  BY <1>1
<1>4. lastTry' \in [AlertKeys -> 0 .. Window] /\ lastTry'[k] = 0
  BY <1>0, <1>1
<1>5. \A j \in AlertKeys : j # k => lastTry'[j] = lastTry[j]
  BY <1>0, <1>1
<1>6. \A j \in kept : seen'[j] = IF j = k THEN 0 ELSE seen[j]
  BY <1>1
<1>7. \A j \in DOMAIN seen : seen[j] = lastTry[j]
  BY DEF NotifierInv, MemoryIsTrue
<1>8. /\ IsFiniteSet(tried') /\ Cardinality(tried') \in Nat
      /\ Cardinality(tried) \in Nat /\ Cardinality(tried) <= Cardinality(tried')
  BY <1>0, <1>1, TriedGrows
<1>9. /\ IsFiniteSet(known) /\ Cardinality(known) \in Nat
      /\ Cardinality(known) <= Cardinality(tried')
  <2>1. IsFiniteSet(known) /\ Cardinality(known) <= Cardinality(tried')
    BY <1>2, <1>8, FS_Subset
  <2> QED BY <2>1, FS_CardinalityType
<1>10. \A j \in kept : seen'[j] = lastTry'[j]
  <2> SUFFICES ASSUME NEW j \in kept PROVE seen'[j] = lastTry'[j]
    OBVIOUS
  <2>1. CASE j = k
    BY <2>1, <1>4, <1>6
  <2>2. CASE j # k
    <3>1. j \in DOMAIN seen /\ j \in AlertKeys
      BY <2>2, <1>0, <1>2
    <3> QED BY <3>1, <2>2, <1>5, <1>6, <1>7
  <2> QED BY <2>1, <2>2
<1>11. \A j \in AlertKeys \ kept :
          lastTry'[j] < Window => isWebhook /\ Cardinality(tried') > MaxKeys
  <2> SUFFICES ASSUME NEW j \in AlertKeys, j \notin kept, lastTry'[j] < Window
               PROVE  isWebhook /\ Cardinality(tried') > MaxKeys
    OBVIOUS
  <2>1. CASE Forgets(known)
    <3>1. isWebhook /\ Cardinality(known) > MaxKeys
      BY <2>1 DEF Forgets
    <3> QED BY <3>1, <1>0, <1>8, <1>9
  <2>2. CASE ~Forgets(known)
    <3>1. j # k /\ j \notin DOMAIN seen
      BY <2>2, <1>2
    <3>2. lastTry[j] < Window
      BY <3>1, <1>5
    <3>3. isWebhook /\ Cardinality(tried) > MaxKeys
      BY <3>1, <3>2 DEF NotifierInv, MemoryIsTrue
    <3> QED BY <3>3, <1>0, <1>8
  <2> QED BY <2>1, <2>2
<1>12. isWebhook => Cardinality(kept) <= MaxKeys
  <2>1. CASE Forgets(known)
    <3>1. kept = {k} /\ Cardinality({k}) = 1
      BY <2>1, FS_Singleton
    <3> QED BY <3>1, <1>0
  <2>2. CASE ~Forgets(known)
    <3> SUFFICES ASSUME isWebhook PROVE Cardinality(kept) <= MaxKeys
      OBVIOUS
    <3>1. kept = known
      BY <2>2
    <3>2. ~(Cardinality(known) > MaxKeys)
      BY <2>2 DEF Forgets
    <3>3. Cardinality(known) <= MaxKeys
      <4> HIDE DEF known
      <4> QED BY <3>2, <1>0, <1>9
    <3> QED BY <3>1, <3>3
  <2> QED BY <2>1, <2>2
<1>13. MemoryIsTrue'
  BY <1>3, <1>8, <1>10, <1>11 DEF MemoryIsTrue, AlertKeys
<1>14. \A j \in DOMAIN seen' : seen'[j] \in 0 .. Window
  <2> SUFFICES ASSUME NEW j \in kept PROVE lastTry'[j] \in 0 .. Window
    BY <1>3, <1>10
  <2>1. j \in AlertKeys
    BY <1>0, <1>2
  <2> QED BY <2>1, <1>4
<1>15. DOMAIN seen' \subseteq tried' /\ tried' \subseteq AlertKeys
  BY <1>0, <1>1, <1>2, <1>3
<1> QED BY <1>3, <1>4, <1>12, <1>13, <1>14, <1>15

-----------------------------------------------------------------------------
(* Every step keeps the invariant.                                         *)

LEMMA InitInv == NotifierInit => NotifierInv
<1> SUFFICES ASSUME NotifierInit PROVE NotifierInv
  OBVIOUS
<1> USE NotifierAssumption DEF NotifierInit
<1>1. DOMAIN seen = {} /\ tried = {}
  OBVIOUS
<1>2. IsFiniteSet({}) /\ Cardinality({}) = 0
  BY FS_EmptySet
<1>3. NotifierTypeOK
  BY <1>1, <1>2 DEF NotifierTypeOK, NotifierPCs
<1>4. FindingsGiven
  BY DEF FindingsGiven
<1>5. MemoryIsTrue
  BY <1>1, <1>2 DEF MemoryIsTrue
<1> QED BY <1>3, <1>4, <1>5 DEF NotifierInv

\* Whatever leaves the table of keys alone leaves what is known of it.
LEMMA MemoryUntouched ==
    ASSUME NotifierInv, UNCHANGED <<tryVars, isWebhook>>
    PROVE  /\ MemoryIsTrue'
           /\ DOMAIN seen' \subseteq tried' /\ tried' \subseteq AlertKeys
           /\ \A j \in DOMAIN seen' : seen'[j] \in 0 .. Window
           /\ isWebhook' => Cardinality(DOMAIN seen') <= MaxKeys
           /\ lastTry' \in [AlertKeys -> 0 .. Window]
<1>1. seen' = seen /\ tried' = tried /\ lastTry' = lastTry /\ isWebhook' = isWebhook
  BY DEF tryVars
<1>2. NotifierTypeOK /\ MemoryIsTrue
  BY DEF NotifierInv
<1> QED BY <1>1, <1>2 DEF NotifierTypeOK, MemoryIsTrue, AlertKeys

\* The part of the type invariant that a step of one goroutine may disturb.
GoroutinesOK ==
    /\ isWebhook \in BOOLEAN /\ dry \in BOOLEAN
    /\ sent \in Nat /\ last \in {NoAlert, AnError} \cup Alerts
    /\ npc \in [Alerts -> NotifierPCs]
    /\ finding \in [Alerts -> Findings \cup {NoFinding}]
    /\ age \in [Alerts -> 0 .. Timeout]

LEMMA RaiseStep ==
    ASSUME NotifierInv, NEW n \in Alerts, Raise(n)
    PROVE  NotifierInv'
<1>1. NotifierTypeOK /\ FindingsGiven
  BY DEF NotifierInv
<1>2. UNCHANGED <<tryVars, isWebhook>> /\ UNCHANGED <<dry, sent, last, age>>
  BY DEF Raise, noteVars
<1>3. PICK f \in Findings : finding' = [finding EXCEPT ![n] = f]
  BY DEF Raise
<1>4. npc' = [npc EXCEPT ![n] = "started"]
  BY DEF Raise
<1>5. GoroutinesOK'
  BY <1>1, <1>2, <1>3, <1>4 DEF GoroutinesOK, NotifierTypeOK, NotifierPCs, NoAlert, AnError, NoFinding
<1>6. FindingsGiven'
  BY <1>1, <1>3, <1>4 DEF FindingsGiven, NotifierTypeOK
<1>7. NotifierTypeOK' /\ MemoryIsTrue'
  BY <1>2, <1>5, MemoryUntouched DEF NotifierTypeOK, GoroutinesOK
<1> QED BY <1>6, <1>7 DEF NotifierInv

LEMMA NotifyStep ==
    ASSUME NotifierInv, NEW n \in Alerts, Notify(n)
    PROVE  NotifierInv'
<1>1. NotifierTypeOK /\ FindingsGiven
  BY DEF NotifierInv
<1>2. npc[n] # "none" /\ UNCHANGED <<isWebhook, dry, finding, age>>
  BY DEF Notify, Check, DryRun, LookupHost, Answer, GiveUp, Report, noteVars, tryVars
<1>3. /\ npc' \in [Alerts -> NotifierPCs]
      /\ \A m \in Alerts : m # n => npc'[m] = npc[m]
  BY <1>1 DEF Notify, Check, DryRun, LookupHost, Answer, GiveUp, Report, AfterCheck,
     NotifierTypeOK, NotifierPCs
<1>4. sent' \in Nat /\ last' \in {NoAlert, AnError} \cup Alerts
  BY <1>1 DEF Notify, Check, DryRun, LookupHost, Answer, GiveUp, Report, CountSuccess,
     CountFailure, noteVars, NotifierTypeOK, NoAlert, AnError
<1>5. GoroutinesOK'
  BY <1>1, <1>2, <1>3, <1>4 DEF GoroutinesOK, NotifierTypeOK, NoAlert, AnError, NoFinding
<1>6. FindingsGiven'
  BY <1>1, <1>2, <1>3 DEF FindingsGiven
<1>7. /\ MemoryIsTrue'
      /\ DOMAIN seen' \subseteq tried' /\ tried' \subseteq AlertKeys
      /\ \A j \in DOMAIN seen' : seen'[j] \in 0 .. Window
      /\ isWebhook' => Cardinality(DOMAIN seen') <= MaxKeys
      /\ lastTry' \in [AlertKeys -> 0 .. Window]
  <2>1. CASE UNCHANGED tryVars
    BY <2>1, <1>2, MemoryUntouched
  <2>2. CASE Remember(KeyFor(finding[n]))
    <3>1. KeyFor(finding[n]) \in AlertKeys
      BY <1>1, <1>2, KeyIsKnown DEF FindingsGiven
    <3> QED BY <2>2, <3>1, <1>2, RememberKeepsMemory
  <2>3. UNCHANGED tryVars \/ Remember(KeyFor(finding[n]))
    BY DEF Notify, Check, DryRun, LookupHost, Answer, GiveUp, Report
  <2> QED BY <2>1, <2>2, <2>3
<1>8. NotifierTypeOK'
  BY <1>5, <1>7 DEF NotifierTypeOK, GoroutinesOK
<1> QED BY <1>6, <1>7, <1>8 DEF NotifierInv

LEMMA TickStep ==
    ASSUME NotifierInv, Tick
    PROVE  NotifierInv'
<1>1. NotifierTypeOK /\ FindingsGiven /\ MemoryIsTrue /\ Window \in Nat /\ Timeout \in Nat
  BY NotifierAssumption DEF NotifierInv
<1>2. UNCHANGED <<isWebhook, dry, sent, last, npc, finding, tried>>
  BY DEF Tick, noteVars
<1>3. /\ seen' = [k \in DOMAIN seen |-> Older(seen[k], Window)]
      /\ lastTry' = [k \in AlertKeys |-> Older(lastTry[k], Window)]
  BY DEF Tick
<1>4. age' \in [Alerts -> 0 .. Timeout]
  <2> SUFFICES ASSUME NEW n \in Alerts
               PROVE  (IF npc[n] = "send" THEN age[n] + 1 ELSE age[n]) \in 0 .. Timeout
    BY DEF Tick
  <2>1. age[n] \in 0 .. Timeout
    BY <1>1 DEF NotifierTypeOK
  <2>2. npc[n] = "send" => age[n] < Timeout
    BY DEF Tick
  <2>3. CASE npc[n] = "send"
    <3>1. age[n] + 1 \in 0 .. Timeout
      BY <1>1, <2>1, <2>2, <2>3
    <3> QED BY <2>3, <3>1
  <2>4. CASE npc[n] # "send"
    BY <2>1, <2>4
  <2> QED BY <2>3, <2>4
<1>5. \A a \in 0 .. Window : Older(a, Window) \in 0 .. Window /\ (Older(a, Window) < Window => a < Window)
  BY <1>1 DEF Older
<1>6. DOMAIN seen' = DOMAIN seen /\ \A k \in DOMAIN seen : seen'[k] = Older(seen[k], Window)
  BY <1>3
<1>7. \A k \in AlertKeys : lastTry[k] \in 0 .. Window /\ lastTry'[k] = Older(lastTry[k], Window)
  BY <1>1, <1>3 DEF NotifierTypeOK
<1>8. lastTry' \in [AlertKeys -> 0 .. Window]
  BY <1>3, <1>5, <1>7
<1>9. \A k \in DOMAIN seen' : seen'[k] \in 0 .. Window /\ seen'[k] = lastTry'[k]
  <2> SUFFICES ASSUME NEW k \in DOMAIN seen
               PROVE  seen'[k] \in 0 .. Window /\ seen'[k] = lastTry'[k]
    BY <1>6
  <2>1. k \in AlertKeys /\ seen[k] = lastTry[k]
    BY <1>1 DEF NotifierTypeOK, MemoryIsTrue
  <2> QED BY <2>1, <1>5, <1>6, <1>7
<1>10. \A k \in AlertKeys \ DOMAIN seen' :
          lastTry'[k] < Window => isWebhook' /\ Cardinality(tried') > MaxKeys
  <2> SUFFICES ASSUME NEW k \in AlertKeys, k \notin DOMAIN seen, lastTry'[k] < Window
               PROVE  isWebhook /\ Cardinality(tried) > MaxKeys
    BY <1>2, <1>6
  <2>1. lastTry[k] < Window
    BY <1>5, <1>7
  <2> QED BY <2>1, <1>1 DEF MemoryIsTrue
<1>11. MemoryIsTrue'
  BY <1>1, <1>2, <1>9, <1>10 DEF MemoryIsTrue, AlertKeys
<1>12. NotifierTypeOK'
  BY <1>1, <1>2, <1>4, <1>6, <1>8, <1>9 DEF NotifierTypeOK, NotifierPCs, AlertKeys
<1>13. FindingsGiven'
  BY <1>1, <1>2 DEF FindingsGiven
<1> QED BY <1>11, <1>12, <1>13 DEF NotifierInv

LEMMA StepInv == NotifierInv /\ [NotifierNext]_notifierVars => NotifierInv'
<1> SUFFICES ASSUME NotifierInv, [NotifierNext]_notifierVars PROVE NotifierInv'
  OBVIOUS
<1>1. CASE Tick
  BY <1>1, TickStep
<1>2. CASE \E n \in Alerts : Raise(n) \/ Notify(n)
  BY <1>2, RaiseStep, NotifyStep
<1>3. CASE UNCHANGED notifierVars
  <2>1. UNCHANGED <<tryVars, noteVars, npc, finding, age>>
    BY <1>3 DEF notifierVars
  <2>2. NotifierTypeOK /\ FindingsGiven /\ MemoryIsTrue
    BY DEF NotifierInv
  <2>3. NotifierTypeOK' /\ FindingsGiven' /\ MemoryIsTrue'
    BY <2>1, <2>2 DEF tryVars, noteVars, NotifierTypeOK, FindingsGiven, MemoryIsTrue, AlertKeys,
       NotifierPCs
  <2> QED BY <2>3 DEF NotifierInv
<1> QED BY <1>1, <1>2, <1>3 DEF NotifierNext

\* The inductive invariant holds always.
THEOREM NotifierInvariance == NotifierSpec => []NotifierInv
BY InitInv, StepInv, PTL DEF NotifierSpec

\* The notifier keeps its types; in particular the webhook never remembers more
\* than MaxKeys keys, and no send outlasts its timeout
\* (webhook.go:85-94, telegram.go:46).
THEOREM NotifierTyping == NotifierSpec => []NotifierTypeOK
<1>1. NotifierInv => NotifierTypeOK
  BY DEF NotifierInv
<1> QED BY <1>1, NotifierInvariance, PTL

\* No alert is tried twice within the window, whatever the goroutines of equal
\* findings do, but for a webhook that knows of too many (telegram.go:75-81,
\* webhook.go:85-94).
THEOREM NotifierSpacedOut == NotifierSpec => SpacedOut
<1> DEFINE Spaced ==
      \A n \in Alerts :
          Tried(n) => \/ lastTry[KeyFor(finding[n])] = Window
                      \/ isWebhook /\ Cardinality(tried) > MaxKeys
<1>1. ASSUME NotifierInv, NotifierNext, NEW n \in Alerts, Tried(n)
      PROVE  \/ lastTry[KeyFor(finding[n])] = Window
             \/ isWebhook /\ Cardinality(tried) > MaxKeys
  <2> DEFINE k == KeyFor(finding[n])
  <2>1. NotifierTypeOK /\ FindingsGiven /\ MemoryIsTrue /\ Window \in Nat
    BY <1>1, NotifierAssumption DEF NotifierInv
  <2>2. npc[n] = "started" /\ npc'[n] \in {"dry", "lookup", "send"}
    BY <1>1 DEF Tried
  <2>3. ~Recent(k)
    <3>1. CASE Check(n)
      BY <3>1, <2>1, <2>2 DEF Check, NotifierTypeOK
    <3>2. CASE ~Check(n)
      BY <3>2, <1>1, <2>1, <2>2 DEF NotifierNext, Tick, Raise, Notify, Check, DryRun, LookupHost,
         Answer, GiveUp, Report, NotifierTypeOK
    <3> QED BY <3>1, <3>2
  <2>4. k \in AlertKeys
    BY <2>1, <2>2, KeyIsKnown DEF FindingsGiven
  <2>5. lastTry[k] \in 0 .. Window
    BY <2>1, <2>4 DEF NotifierTypeOK
  <2>6. CASE k \in DOMAIN seen
    <3>1. ~(seen[k] < Window) /\ seen[k] = lastTry[k]
      BY <2>1, <2>3, <2>6 DEF Recent, MemoryIsTrue
    <3> QED BY <2>1, <2>5, <3>1
  <2>7. CASE k \notin DOMAIN seen
    <3>1. lastTry[k] < Window => isWebhook /\ Cardinality(tried) > MaxKeys
      BY <2>1, <2>4, <2>7 DEF MemoryIsTrue
    <3>2. CASE lastTry[k] < Window
      BY <3>1, <3>2
    <3>3. CASE ~(lastTry[k] < Window)
      BY <2>1, <2>5, <3>3
    <3> QED BY <3>2, <3>3
  <2> QED BY <2>6, <2>7
<1>2. NotifierInv /\ [NotifierNext]_notifierVars => [Spaced]_notifierVars
  BY <1>1
<1> HIDE DEF Spaced
<1>3. NotifierSpec => [][Spaced]_notifierVars
  BY <1>2, NotifierInvariance, PTL DEF NotifierSpec
<1> QED BY <1>3 DEF SpacedOut, Spaced
=============================================================================
