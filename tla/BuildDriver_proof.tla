-------------------------- MODULE BuildDriver_proof --------------------------
(***************************************************************************)
(* Proofs about build.sh for any table of scripts that is well ordered and *)
(* any number of runs, failures and lost jobs: type correctness, and that  *)
(* scripts that succeeded in their order have made a good product.         *)
(***************************************************************************)
EXTENDS BuildDriver, SequenceTheorems, TLAPS

(* While a script runs, neither it nor a later one counts as done. *)
NotYet == pc \in {"work", "install"} => upto < at

(* What a script leaves alone if it is complete is never a bad one. *)
StampedNotBad ==
  \A i \in Script : Scripts[i].stamped => \A a \in Scripts[i].makes : art[a] # "bad"

GoodInv == TypeOK /\ NotYet /\ StampedNotBad /\ InOrderGood

-----------------------------------------------------------------------------
(* What WellOrdered says of two scripts of the table. *)
LEMMA TableFacts ==
  /\ \A i \in Script : Scripts[i] \in ScriptType
  /\ Script \subseteq Nat \ {0}
  /\ \A i \in Script : \A j \in 1..i : j \in Script
<1>1. Scripts \in Seq(ScriptType)
  BY ScriptsAssumption DEF WellOrdered
<1>2. Len(Scripts) \in Nat /\ Script = 1..Len(Scripts)
  BY <1>1, LenProperties DEF Script
<1> HIDE DEF Script
<1>3. \A i \in 1..Len(Scripts) : Scripts[i] \in ScriptType
  BY <1>1, ElementOfSeq
<1> QED BY <1>2, <1>3

LEMMA ReadsMadeBefore ==
  ASSUME NEW i \in Script, NEW a \in Reads(Scripts[i])
  PROVE  \E j \in Script : j < i /\ a \in Scripts[j].makes
<1>1. PICK j \in 1..i-1 : a \in Scripts[j].makes
  BY ScriptsAssumption DEF WellOrdered, Script
<1>2. i \in Nat \ {0} /\ j \in 1..i /\ j < i
  BY <1>1, TableFacts
<1> QED BY <1>1, <1>2, TableFacts

LEMMA Disjoint ==
  ASSUME NEW i \in Script, NEW j \in Script, j < i
  PROVE  /\ Scripts[i].makes \cap Scripts[j].makes = {}
         /\ Scripts[i].drops \cap Scripts[j].makes = {}
<1>1. j \in 1..i-1
  BY TableFacts
<1> QED BY <1>1, ScriptsAssumption DEF WellOrdered, Script

LEMMA StampedReadsNothing ==
  ASSUME NEW i \in Script, Scripts[i].stamped
  PROVE  Reads(Scripts[i]) = {} /\ ~Scripts[i].background
BY ScriptsAssumption DEF WellOrdered, Script

-----------------------------------------------------------------------------
LEMMA TypeInit == Init => TypeOK
<1> SUFFICES ASSUME Init PROVE TypeOK
  OBVIOUS
<1>1. args \in Seq(Option \cup Seq(Digit)) /\ prefix \in Seq(Digit)
  BY EmptySeq DEF Init
<1>2. art \in [Artifact -> {"none", "partial", "good", "bad"}]
  BY DEF Init
<1>3. dryrun \in BOOLEAN /\ pc = "idle" /\ at = 0
  BY DEF Init
<1>4. upto = 0 /\ runs = 0 /\ faults = 0 /\ losses = 0
  BY DEF Init
<1>5. runs \in 0..MaxRun /\ faults \in 0..MaxFault /\ losses \in 0..MaxLost
  BY <1>4, BoundsAssumption
<1> QED BY <1>1, <1>2, <1>3, <1>4, <1>5 DEF TypeOK

LEMMA TypeStep == TypeOK /\ [Next]_vars => TypeOK'
<1> SUFFICES ASSUME TypeOK, [Next]_vars PROVE TypeOK'
  OBVIOUS
<1> USE BoundsAssumption
<1>1. CASE Run
  <2>1. args' \in Seq(Option \cup Seq(Digit))
    BY <1>1, InvocationsAssumption DEF Run
  <2>2. prefix' \in Seq(Digit)
    BY <1>1, EmptySeq DEF Run
  <2>3. pc' = "args" /\ dryrun' \in BOOLEAN /\ at' = 0 /\ runs < MaxRun /\ runs' = runs + 1
    BY <1>1 DEF Run
  <2>4. runs' \in 0..MaxRun
    BY <2>3 DEF TypeOK
  <2>5. UNCHANGED <<art, upto, faults, losses>>
    BY <1>1 DEF Run
  <2> QED BY <2>1, <2>2, <2>3, <2>4, <2>5 DEF TypeOK
<1>2. CASE ParseArg
  <2>1. Head(args) \in Option \cup Seq(Digit) /\ Tail(args) \in Seq(Option \cup Seq(Digit))
    BY <1>2, HeadTailProperties DEF ParseArg, TypeOK
  <2>2. args' \in Seq(Option \cup Seq(Digit))
    BY <1>2, <2>1 DEF ParseArg, TypeOK
  <2>3. prefix' \in Seq(Digit)
    <3> HIDE DEF Option, Digit
    <3> QED BY <1>2, <2>1 DEF ParseArg, TypeOK
  <2>4. dryrun' \in BOOLEAN /\ pc' \in {"idle", "args"}
    BY <1>2 DEF ParseArg, TypeOK
  <2> HIDE DEF Option, Digit
  <2> QED BY <1>2, <2>2, <2>3, <2>4 DEF ParseArg, TypeOK, counters
<1>3. CASE ArgsOver
  BY <1>3 DEF ArgsOver, TypeOK, counters
<1>4. CASE NextScript
  <2>1. at' \in Script
    BY <1>4 DEF NextScript, Rest
  <2>2. upto' \in Nat
    BY <1>4, <2>1, TableFacts DEF NextScript, TypeOK
  <2>3. pc' \in {"next", "work"}
    BY <1>4 DEF NextScript
  <2> QED BY <1>4, <2>1, <2>2, <2>3 DEF NextScript, TypeOK, counters
<1>5. CASE Over
  BY <1>5 DEF Over, TypeOK, counters
<1>6. CASE UpToDate
  <2>1. at \in Script
    BY <1>6 DEF UpToDate, TypeOK
  <2>2. upto' \in Nat
    BY <1>6, <2>1, TableFacts DEF UpToDate, Succeed, TypeOK
  <2> QED BY <1>6, <2>1, <2>2 DEF UpToDate, TypeOK, counters
<1>7. CASE Install
  <2>1. at \in Script
    BY <1>7 DEF Install, TypeOK
  <2>2. art' \in [Artifact -> {"none", "partial", "good", "bad"}]
    BY <1>7 DEF Install, TypeOK
  <2> QED BY <1>7, <2>1, <2>2 DEF Install, TypeOK, counters
<1>8. CASE Finish
  <2>1. at \in Script
    BY <1>8 DEF Finish, TypeOK
  <2>2. art' \in [Artifact -> {"none", "partial", "good", "bad"}]
    BY <1>8 DEF Finish, TypeOK, Quality
  <2>3. upto' \in Nat
    BY <1>8, <2>1, TableFacts DEF Finish, Succeed, TypeOK
  <2>4. losses' \in 0..MaxLost
    BY <1>8 DEF Finish, TypeOK
  <2> QED BY <1>8, <2>1, <2>2, <2>3, <2>4 DEF Finish, TypeOK
<1>9. CASE FailScript
  <2>1. faults' \in 0..MaxFault
    BY <1>9 DEF FailScript, TypeOK
  <2> QED BY <1>9, <2>1 DEF FailScript, TypeOK
<1>10. CASE Kill
  <2>1. faults' \in 0..MaxFault
    BY <1>10 DEF Kill, TypeOK
  <2> QED BY <1>10, <2>1 DEF Kill, TypeOK
<1>11. CASE UNCHANGED vars
  BY <1>11 DEF vars, TypeOK
<1> QED
  BY <1>1, <1>2, <1>3, <1>4, <1>5, <1>6, <1>7, <1>8, <1>9, <1>10, <1>11 DEF Next, Step

(* Every reachable state of build.sh has its type, for any table of scripts *)
(* that is well ordered and any bounds (build.sh:5-87).                     *)
THEOREM TypeCorrect == Spec => []TypeOK
<1>1. Init => TypeOK
  BY TypeInit
<1>2. TypeOK /\ [Next]_vars => TypeOK'
  BY TypeStep
<1> QED BY <1>1, <1>2, PTL DEF Spec

-----------------------------------------------------------------------------
(* A step that leaves what was made alone, and runs no script further. *)
LEMMA Untouched ==
  ASSUME GoodInv, UNCHANGED <<art, upto>>, pc' \in {"idle", "args", "next"}
  PROVE  NotYet' /\ StampedNotBad' /\ InOrderGood'
BY DEF GoodInv, NotYet, StampedNotBad, InOrderGood

(* A script that ends well on top of those before it. *)
LEMMA SucceedGood ==
  ASSUME GoodInv, at \in Script, upto < at, Succeed,
         \A a \in Artifact : a \notin Scripts[at].makes => art'[a] = art[a],
         upto = at - 1 => \A a \in Scripts[at].makes : art'[a] = "good"
  PROVE  InOrderGood'
<1> SUFFICES ASSUME NEW i \in Script, i <= upto', NEW a \in Scripts[i].makes
             PROVE  art'[a] = "good"
  BY DEF InOrderGood
<1>1. i \in Nat /\ at \in Nat /\ upto \in Nat /\ a \in Artifact
  BY TableFacts DEF GoodInv, TypeOK, ScriptType
<1>2. CASE i < at
  <2>1. i <= upto
    BY <1>1, <1>2 DEF Succeed
  <2>2. a \notin Scripts[at].makes
    BY <1>2, Disjoint
  <2> QED BY <1>1, <2>1, <2>2 DEF GoodInv, InOrderGood
<1>3. CASE ~(i < at)
  <2>1. i = at /\ upto = at - 1
    BY <1>1, <1>3 DEF Succeed
  <2> QED BY <2>1
<1> QED BY <1>2, <1>3

LEMMA NextScriptGood == ASSUME GoodInv, NextScript PROVE NotYet' /\ InOrderGood'
<1>1. at' \in Nat \ {0} /\ upto \in Nat /\ art' = art
  BY TableFacts DEF NextScript, Rest, GoodInv, TypeOK
<1>2. upto' <= upto /\ upto' \in Nat
  BY <1>1 DEF NextScript
<1>3. NotYet'
  BY <1>1 DEF NextScript, NotYet
<1>4. \A i \in Script : i <= upto' => i <= upto
  BY <1>1, <1>2, TableFacts
<1> QED BY <1>1, <1>3, <1>4 DEF InOrderGood, GoodInv

LEMMA UpToDateGood == ASSUME GoodInv, UpToDate PROVE NotYet' /\ InOrderGood'
<1>1. at \in Script /\ upto < at /\ art' = art
  BY DEF UpToDate, GoodInv, TypeOK, NotYet
<1>2. \A a \in Scripts[at].makes : art[a] = "good"
  BY <1>1 DEF UpToDate, GoodInv, StampedNotBad, Complete
<1>3. Succeed
  BY DEF UpToDate
<1>4. NotYet'
  BY DEF UpToDate, NotYet
<1> QED BY <1>1, <1>2, <1>3, <1>4, SucceedGood

LEMMA InstallGood == ASSUME GoodInv, Install PROVE NotYet' /\ StampedNotBad' /\ InOrderGood'
<1>1. at \in Script /\ upto < at /\ upto \in Nat /\ upto' = upto
  BY DEF Install, GoodInv, TypeOK, NotYet
<1>2. art' = [a \in Artifact |->
        IF a \in Scripts[at].makes THEN "partial"
        ELSE IF a \in Scripts[at].drops THEN "none" ELSE art[a]]
  BY DEF Install
<1>3. NotYet'
  BY <1>1 DEF Install, NotYet
<1>4. StampedNotBad'
  BY <1>2, TableFacts DEF StampedNotBad, GoodInv, ScriptType
<1>5. InOrderGood'
  <2> SUFFICES ASSUME NEW i \in Script, i <= upto, NEW a \in Scripts[i].makes
               PROVE  art'[a] = "good"
    BY <1>1 DEF InOrderGood
  <2>1. i < at
    BY <1>1, TableFacts
  <2>2. a \notin Scripts[at].makes /\ a \notin Scripts[at].drops
    BY <1>1, <2>1, Disjoint
  <2>3. a \in Artifact /\ art[a] = "good"
    BY TableFacts DEF GoodInv, InOrderGood, ScriptType
  <2> QED BY <1>2, <2>2, <2>3
<1> QED BY <1>3, <1>4, <1>5

(* What the scripts before this one have made is good, so what it read is. *)
LEMMA ReadsGood ==
  ASSUME GoodInv, at \in Script, upto = at - 1
  PROVE  Quality(Scripts[at]) = "good"
<1> SUFFICES ASSUME NEW a \in Reads(Scripts[at]) PROVE art[a] = "good"
  BY DEF Quality
<1>1. PICK j \in Script : j < at /\ a \in Scripts[j].makes
  BY ReadsMadeBefore
<1>2. j <= upto
  BY <1>1, TableFacts
<1> QED BY <1>1, <1>2 DEF GoodInv, InOrderGood

LEMMA FinishGood == ASSUME GoodInv, Finish PROVE NotYet' /\ StampedNotBad' /\ InOrderGood'
<1>1. at \in Script /\ upto < at
  BY DEF Finish, GoodInv, TypeOK, NotYet
<1>2. NotYet'
  BY DEF Finish, NotYet
<1>3. CASE /\ art' = [a \in Artifact |->
                IF a \in Scripts[at].makes THEN Quality(Scripts[at]) ELSE art[a]]
           /\ Succeed
  <2>1. StampedNotBad'
    <3> SUFFICES ASSUME NEW i \in Script, Scripts[i].stamped, NEW a \in Scripts[i].makes
                 PROVE  art'[a] # "bad"
      BY DEF StampedNotBad
    <3>1. a \in Artifact /\ art[a] # "bad"
      BY TableFacts DEF GoodInv, StampedNotBad, ScriptType
    <3>2. CASE i = at
      <4>1. Quality(Scripts[at]) = "good"
        BY <1>1, <3>2, StampedReadsNothing DEF Quality
      <4> QED BY <1>3, <3>1, <3>2, <4>1
    <3>3. CASE i # at
      <4>1. a \notin Scripts[at].makes
        BY <1>1, <3>3, Disjoint, TableFacts
      <4> QED BY <1>3, <3>1, <4>1
    <3> QED BY <3>2, <3>3
  <2>2. InOrderGood'
    <3>1. Scripts[at].makes \subseteq Artifact
      BY <1>1, TableFacts DEF ScriptType
    <3>2. upto = at - 1 => \A a \in Scripts[at].makes : art'[a] = "good"
      BY <1>1, <1>3, <3>1, ReadsGood
    <3>3. \A a \in Artifact : a \notin Scripts[at].makes => art'[a] = art[a]
      BY <1>3
    <3> QED BY <1>1, <1>3, <3>2, <3>3, SucceedGood
  <2> QED BY <1>2, <2>1, <2>2
<1>4. CASE /\ Scripts[at].background
           /\ art' = [a \in Artifact |-> IF a \in Scripts[at].makes THEN "bad" ELSE art[a]]
           /\ UNCHANGED upto
  <2>1. \A i \in Script, a \in Artifact :
           i # at /\ a \in Scripts[i].makes => art'[a] = art[a]
    BY <1>1, <1>4, Disjoint, TableFacts
  <2>2. ~Scripts[at].stamped
    BY <1>1, <1>4, StampedReadsNothing
  <2>3. \A i \in Script : Scripts[i].makes \subseteq Artifact
    BY TableFacts DEF ScriptType
  <2>4. StampedNotBad'
    BY <2>1, <2>2, <2>3 DEF GoodInv, StampedNotBad
  <2>5. \A i \in Script : i <= upto => i # at
    BY <1>1, TableFacts DEF GoodInv, TypeOK
  <2>6. InOrderGood'
    BY <1>4, <2>1, <2>3, <2>5 DEF GoodInv, InOrderGood
  <2> QED BY <1>2, <2>4, <2>6
<1> QED BY <1>3, <1>4 DEF Finish

LEMMA GoodInit == Init => GoodInv
<1> SUFFICES ASSUME Init PROVE GoodInv
  OBVIOUS
<1>1. NotYet
  BY DEF Init, NotYet
<1>2. \A i \in Script : Scripts[i].makes \subseteq Artifact /\ ~(i <= upto)
  BY TableFacts DEF Init, ScriptType
<1>3. StampedNotBad /\ InOrderGood
  BY <1>2 DEF Init, StampedNotBad, InOrderGood
<1> QED BY <1>1, <1>3, TypeInit DEF GoodInv

LEMMA GoodStep == GoodInv /\ [Next]_vars => GoodInv'
<1> SUFFICES ASSUME GoodInv, [Next]_vars PROVE GoodInv'
  OBVIOUS
<1>1. TypeOK'
  BY TypeStep DEF GoodInv
<1>2. CASE Run \/ ParseArg \/ ArgsOver \/ Over \/ FailScript \/ Kill
  <2>1. UNCHANGED <<art, upto>>
    BY <1>2 DEF Run, ParseArg, ArgsOver, Over, FailScript, Kill
  <2>2. pc' \in {"idle", "args", "next"}
    BY <1>2 DEF Run, ParseArg, ArgsOver, Over, FailScript, Kill
  <2> QED BY <1>1, <2>1, <2>2, Untouched DEF GoodInv
<1>3. CASE NextScript
  <2>1. StampedNotBad'
    BY <1>3 DEF NextScript, StampedNotBad, GoodInv
  <2> QED BY <1>1, <1>3, <2>1, NextScriptGood DEF GoodInv
<1>4. CASE UpToDate
  <2>1. StampedNotBad'
    BY <1>4 DEF UpToDate, StampedNotBad, GoodInv
  <2> QED BY <1>1, <1>4, <2>1, UpToDateGood DEF GoodInv
<1>5. CASE Install
  BY <1>1, <1>5, InstallGood DEF GoodInv
<1>6. CASE Finish
  BY <1>1, <1>6, FinishGood DEF GoodInv
<1>7. CASE UNCHANGED vars
  BY <1>1, <1>7 DEF vars, GoodInv, NotYet, StampedNotBad, InOrderGood
<1> QED BY <1>2, <1>3, <1>4, <1>5, <1>6, <1>7 DEF Next, Step

(* Whatever ran, failed or was killed before: what the scripts that have    *)
(* succeeded in their order made is complete and made from complete things, *)
(* for any table in which everything is made before it is read, and nothing *)
(* that earlier scripts made is removed (build.sh:57-87).                   *)
THEOREM InOrderGoodAlways == Spec => []InOrderGood
<1>1. Init => GoodInv
  BY GoodInit
<1>2. GoodInv /\ [Next]_vars => GoodInv'
  BY GoodStep
<1>3. GoodInv => InOrderGood
  BY DEF GoodInv
<1> QED BY <1>1, <1>2, <1>3, PTL DEF Spec
=============================================================================
