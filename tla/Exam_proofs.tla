---------------------------- MODULE Exam_proofs ----------------------------
(***************************************************************************)
(* Proofs about Exam: for any number of rows, attempts, episodes at once,  *)
(* restarts and any budgets, whatever the generator and the verifier do.   *)
(***************************************************************************)
EXTENDS Exam, FiniteSetTheorems, TLAPS

Stages == {"reset", "ask", "verify", "write"}

\* What an episode's counters say at each stage of its play.
Accounted(e) ==
    /\ e.stage = "verify" => e.tries < MaxAttempts /\ e.tokens <= TokenBudget
    /\ e.success => e.tries > 0 /\ e.tokens <= TokenBudget
    /\ e.opening # "active" => e.tries = 0
    /\ e.stage = "reset" => e.tries = 0
    /\ e.stage \in {"reset", "ask", "verify"} => e.opening = "active" /\ ~e.success

Total(p) == file[p].answer + file[p].nothing

\* A pair that has its row is not played again, in this round or in a later one.
RowOnce(p) ==
    /\ Total(p) <= 1
    /\ Total(p) > 0 => episode[p].stage = "over"
    /\ Total(p) > 0 /\ phase = "running" /\ p[2] > round => p \in done
RowsOnce == \A p \in Pairs : RowOnce(p)

\* Unless the run stops, what has been gathered and is over has its row.
RowsComplete ==
    /\ phase = "running" => done \subseteq OnFile(file)
    /\ phase = "running" /\ ~stopping =>
          \A p \in Pairs : p[2] <= round /\ episode[p].stage = "over" => p \in OnFile(file)
    /\ FinishedIsComplete

\* The rows wasted, with those the episodes under way may still waste.
Waste ==
    /\ IsFiniteSet(Underway)
    /\ empties + Cardinality(Underway) <= EmptyRunAbort + Concurrency - 1
    /\ ~stopping => empties < EmptyRunAbort

IInv ==
    /\ TypeOK
    /\ \A p \in Pairs : Accounted(episode[p])
    /\ RowsOnce /\ RowsComplete /\ Waste

USE ExamAssumption

LEMMA FreshOver ==
    /\ EpisodeOK(Fresh) /\ Accounted(Fresh) /\ Fresh.stage = "queued"
    /\ EpisodeOK(Over) /\ Accounted(Over) /\ Over.stage = "over"
    /\ EpisodeOK([Fresh EXCEPT !.stage = "reset"]) /\ Accounted([Fresh EXCEPT !.stage = "reset"])
<1>1. Fresh \in Episode /\ Over \in Episode /\ [Fresh EXCEPT !.stage = "reset"] \in Episode
  BY DEF Episode, Fresh, Over
<1>2. \A e \in {Fresh, Over, [Fresh EXCEPT !.stage = "reset"]} :
         /\ e.kept = 0 /\ e.judged = 0 /\ e.tries = 0 /\ e.tokens = 0
         /\ e.stage # "verify" /\ ~e.success /\ e.opening = "active"
  BY DEF Fresh, Over
<1>3. Fresh.stage = "queued" /\ Over.stage = "over"
  BY DEF Fresh, Over
<1> QED
  BY <1>1, <1>2, <1>3 DEF EpisodeOK, Accounted

LEMMA InitInv == Init => IInv
<1> SUFFICES ASSUME Init PROVE IInv
  OBVIOUS
<1>1. Underway = {}
  BY FreshOver DEF Init, Underway
<1>2. IsFiniteSet(Underway) /\ Cardinality(Underway) = 0
  BY <1>1, FS_EmptySet
<1>3. TypeOK
  <2>1. episode \in [Pairs -> Episode] /\ \A p \in Pairs : EpisodeOK(episode[p])
    BY FreshOver DEF Init, EpisodeOK
  <2>2. file \in [Pairs -> [answer : Nat, nothing : Nat]]
    BY DEF Init, EmptyFile
  <2>3. \A p \in Pairs : episode[p].stage # "over" => phase = "running" /\ p[2] = round
    BY FreshOver DEF Init
  <2>4. /\ phase = "idle" /\ starts \in 0..MaxStarts /\ round \in 1..Attempts
        /\ done \subseteq Pairs /\ empties \in Nat
    BY DEF Init
  <2>6. torn \in BOOLEAN /\ stopping \in BOOLEAN
    BY Zenon DEF Init
  <2>5. Cardinality(Underway) <= Concurrency
    BY <1>2
  <2> QED
    BY <2>1, <2>2, <2>3, <2>4, <2>5, <2>6 DEF TypeOK
<1>4. (\A p \in Pairs : Accounted(episode[p])) /\ (\A p \in Pairs : RowOnce(p))
  <2>1. \A p \in Pairs : file[p].answer = 0 /\ file[p].nothing = 0
    BY DEF Init, EmptyFile
  <2>2. \A p \in Pairs : Total(p) = 0
    BY <2>1 DEF Total
  <2> QED
    BY <2>2, FreshOver DEF Init, RowOnce
<1>5. RowsComplete /\ Waste
  BY <1>2 DEF Init, RowsComplete, FinishedIsComplete, Waste
<1> QED
  BY <1>3, <1>4, <1>5 DEF IInv, RowsOnce

\* An episode under way that stays so, or one that is let in where there is room.
LEMMA Moves ==
    ASSUME IInv, NEW p \in Pairs, NEW e, Set(p, e), Keep,
           phase = "running", EpisodeOK(e), Accounted(e), e.stage \in Stages,
           \/ episode[p].stage \in Stages
           \/ episode[p].stage = "queued" /\ Cardinality(Underway) < Concurrency /\ ~stopping
    PROVE  IInv'
<1> USE DEF Stages
<1>1. /\ episode' \in [Pairs -> Episode] /\ episode'[p] = e
      /\ \A q \in Pairs \ {p} : episode'[q] = episode[q]
  BY DEF IInv, TypeOK, Set, EpisodeOK
<1>2. UNCHANGED <<phase, starts, file, torn, round, done, empties, stopping>>
  BY DEF Keep, process
<1>3. Underway' = Underway \cup {p}
  BY <1>1 DEF Underway
<1>4. /\ IsFiniteSet(Underway') /\ Cardinality(Underway) \in Nat /\ Cardinality(Underway') \in Nat
      /\ Cardinality(Underway') = IF p \in Underway THEN Cardinality(Underway)
                                                    ELSE Cardinality(Underway) + 1
  BY <1>3, FS_AddElement, FS_CardinalityType DEF IInv, Waste
<1>5. Cardinality(Underway') <= Concurrency
  BY <1>4 DEF IInv, TypeOK, Underway
<1>6. TypeOK'
  <2>1. \A q \in Pairs : EpisodeOK(episode'[q])
    BY <1>1 DEF IInv, TypeOK
  <2>2. \A q \in Pairs : episode'[q].stage # "over" => phase = "running" /\ q[2] = round
    BY <1>1 DEF IInv, TypeOK
  <2> QED
    BY <1>1, <1>2, <1>5, <2>1, <2>2 DEF IInv, TypeOK, EpisodeOK
<1>7. (\A q \in Pairs : Accounted(episode[q]))'
  BY <1>1 DEF IInv, Accounted
<1>8. RowsOnce'
  BY <1>1, <1>2 DEF IInv, RowsOnce, RowOnce, Total
<1>9. RowsComplete'
  BY <1>1, <1>2 DEF IInv, RowsComplete, FinishedIsComplete, OnFile
<1>10. Waste'
  BY <1>2, <1>4, <1>5 DEF IInv, TypeOK, Waste, Underway
<1> QED
  BY <1>6, <1>7, <1>8, <1>9, <1>10 DEF IInv

LEMMA EnterInv ==
    ASSUME IInv, NEW p \in Pairs, phase = "running", Enter(p)
    PROVE  IInv'
<1>1. CASE Admits
  <2>1. Set(p, [Fresh EXCEPT !.stage = "reset"]) /\ ~stopping
    BY <1>1 DEF Enter, Admits
  <2>2. [Fresh EXCEPT !.stage = "reset"].stage \in Stages
    BY DEF Fresh, Stages
  <2> QED
    BY <2>1, <2>2, FreshOver, Moves DEF Enter
<1>2. CASE ~Admits
  <2>1. /\ episode' = [episode EXCEPT ![p] = Over] /\ stopping
        /\ UNCHANGED <<phase, starts, file, torn, round, done, empties, stopping>>
    BY <1>2 DEF Enter, Set, Keep, process, Admits
  <2>2. Underway' = Underway
    BY <2>1, FreshOver DEF Underway, Enter, IInv, TypeOK
  <2>3. TypeOK'
    <3>1. episode' \in [Pairs -> Episode] /\ \A q \in Pairs : EpisodeOK(episode'[q])
      BY <2>1, FreshOver DEF IInv, TypeOK, EpisodeOK
    <3>2. \A q \in Pairs : episode'[q].stage # "over" => phase = "running" /\ q[2] = round
      BY <2>1, FreshOver DEF IInv, TypeOK
    <3> QED
      BY <2>1, <2>2, <3>1, <3>2 DEF IInv, TypeOK, EpisodeOK
  <2>4. (\A q \in Pairs : Accounted(episode[q]))'
    BY <2>1, FreshOver DEF IInv, TypeOK, Accounted
  <2>5. RowsOnce'
    BY <2>1, FreshOver DEF IInv, TypeOK, RowsOnce, RowOnce, Total
  <2>6. RowsComplete' /\ Waste'
    BY <2>1, <2>2 DEF IInv, RowsComplete, FinishedIsComplete, OnFile, Waste
  <2> QED
    BY <2>3, <2>4, <2>5, <2>6 DEF IInv
<1> QED
  BY <1>1, <1>2

\* What a step of an episode starts from.
LEMMA Playing ==
    ASSUME IInv, NEW p \in Pairs
    PROVE  /\ EpisodeOK(episode[p]) /\ Accounted(episode[p]) /\ episode[p] \in Episode
           /\ episode[p].tries \in Nat /\ episode[p].tokens \in Nat
           /\ episode[p].judged \in Nat /\ episode[p].kept \in Nat
BY DEF IInv, TypeOK, EpisodeOK, Episode

\* An exception leaves the episode with what it had.
LEMMA RaisedOK ==
    ASSUME NEW e, EpisodeOK(e), Accounted(e)
    PROVE  EpisodeOK(Raised(e)) /\ Accounted(Raised(e)) /\ Raised(e).stage = "write"
<1>1. Raised(e) \in Episode /\ Raised(e).stage = "write"
  BY DEF EpisodeOK, Episode, Raised
<1>2. /\ Raised(e).kept = e.kept /\ Raised(e).judged = e.judged /\ Raised(e).tries = e.tries
      /\ Raised(e).tokens = e.tokens /\ Raised(e).success = e.success
      /\ Raised(e).opening = e.opening
  BY DEF EpisodeOK, Episode, Raised
<1> QED
  BY <1>1, <1>2 DEF EpisodeOK, Accounted

LEMMA ResetInv ==
    ASSUME IInv, NEW p \in Pairs, phase = "running", Reset(p)
    PROVE  IInv'
<1> DEFINE e == episode[p]
<1>0. EpisodeOK(e) /\ Accounted(e) /\ e.stage = "reset" /\ e \in Episode
  BY Playing DEF Reset
<1>1. CASE Set(p, [e EXCEPT !.stage = "ask"])
  <2> DEFINE new == [e EXCEPT !.stage = "ask"]
  <2>1. EpisodeOK(new) /\ Accounted(new) /\ new.stage = "ask"
    BY <1>0 DEF EpisodeOK, Accounted, Episode
  <2> QED
    BY <1>0, <1>1, <2>1, Moves DEF Reset, Stages
<1>2. CASE Set(p, Raised(e))
  BY <1>0, <1>2, RaisedOK, Moves DEF Reset, Stages
<1>3. ASSUME NEW refusal \in {"statement", "verifier"},
             Set(p, [e EXCEPT !.stage = "write", !.opening = refusal])
      PROVE  IInv'
  <2> DEFINE new == [e EXCEPT !.stage = "write", !.opening = refusal]
  <2>1. EpisodeOK(new) /\ Accounted(new) /\ new.stage = "write"
    BY <1>0 DEF EpisodeOK, Accounted, Episode
  <2> QED
    BY <1>0, <1>3, <2>1, Moves DEF Reset, Stages
<1> QED
  BY <1>1, <1>2, <1>3 DEF Reset

LEMMA AskInv ==
    ASSUME IInv, NEW p \in Pairs, phase = "running", Ask(p)
    PROVE  IInv'
<1> DEFINE e == episode[p]
<1>0. EpisodeOK(e) /\ Accounted(e) /\ e.stage = "ask" /\ e \in Episode /\ e.opening = "active" /\ ~e.success
      /\ e.tries \in Nat /\ e.tokens \in Nat /\ e.judged \in Nat /\ e.kept \in Nat
  BY Playing DEF Ask, Accounted
<1>1. CASE Set(p, [e EXCEPT !.stage = "write"])
  <2> DEFINE new == [e EXCEPT !.stage = "write"]
  <2>1. EpisodeOK(new) /\ Accounted(new) /\ new.stage = "write"
    BY <1>0 DEF EpisodeOK, Accounted, Episode
  <2> QED
    BY <1>0, <1>1, <2>1, Moves DEF Ask, Stages
<1>2. CASE Set(p, [e EXCEPT !.stage = "write", !.empty = TRUE])
  <2> DEFINE new == [e EXCEPT !.stage = "write", !.empty = TRUE]
  <2>1. EpisodeOK(new) /\ Accounted(new) /\ new.stage = "write"
    BY <1>0 DEF EpisodeOK, Accounted, Episode
  <2> QED
    BY <1>0, <1>2, <2>1, Moves DEF Ask, Stages
<1>3. CASE Set(p, Raised(e))
  BY <1>0, <1>3, RaisedOK, Moves DEF Ask, Stages
<1>4. ASSUME MayAsk(e), NEW tokens \in e.tokens..TokenBudget + Headroom,
             Set(p, [e EXCEPT !.tokens = tokens, !.tries = @ + 1])
      PROVE  IInv'
  <2> DEFINE new == [e EXCEPT !.tokens = tokens, !.tries = @ + 1]
  <2>1. tokens \in Nat /\ ~e.success
    BY <1>0
  <2>2. /\ new \in Episode /\ new.stage = "ask" /\ new.tries = e.tries + 1 /\ new.tokens = tokens
        /\ new.kept = e.kept /\ new.judged = e.judged /\ new.opening = e.opening
        /\ new.success = e.success
    <3> HIDE DEF e
    <3>1. e.tries + 1 \in Nat
      BY <1>0
    <3>2. new \in Episode
      BY <1>0, <2>1, <3>1 DEF Episode
    <3> QED
      BY <1>0, <3>2 DEF Episode
  <2>3. EpisodeOK(new) /\ Accounted(new)
    <3> HIDE DEF new
    <3>1. new.kept <= new.judged /\ new.judged <= new.tries /\ new.tries <= MaxAttempts
      BY <1>0, <1>4, <2>2 DEF EpisodeOK, MayAsk
    <3> QED
      BY <1>0, <1>4, <2>1, <2>2, <3>1 DEF EpisodeOK, Accounted, MayAsk
  <2> QED
    BY <1>0, <1>4, <2>2, <2>3, Moves DEF Ask, Stages
<1>5. ASSUME MayAsk(e), NEW tokens \in e.tokens..TokenBudget + Headroom,
             Set(p, [e EXCEPT !.stage = "write", !.tokens = tokens, !.tries = @ + 1])
      PROVE  IInv'
  <2> DEFINE new == [e EXCEPT !.stage = "write", !.tokens = tokens, !.tries = @ + 1]
  <2>1. tokens \in Nat
    BY <1>0
  <2>2. /\ new \in Episode /\ new.stage = "write" /\ new.tries = e.tries + 1 /\ new.tokens = tokens
        /\ new.kept = e.kept /\ new.judged = e.judged /\ new.opening = e.opening
        /\ new.success = e.success
    <3> HIDE DEF e
    <3>1. e.tries + 1 \in Nat
      BY <1>0
    <3>2. new \in Episode
      BY <1>0, <2>1, <3>1 DEF Episode
    <3> QED
      BY <1>0, <3>2 DEF Episode
  <2>3. EpisodeOK(new) /\ Accounted(new)
    <3> HIDE DEF new
    <3>1. new.kept <= new.judged /\ new.judged <= new.tries /\ new.tries <= MaxAttempts
      BY <1>0, <1>5, <2>2 DEF EpisodeOK, MayAsk
    <3> QED
      BY <1>0, <1>5, <2>1, <2>2, <3>1 DEF EpisodeOK, Accounted, MayAsk
  <2> QED
    BY <1>0, <1>5, <2>2, <2>3, Moves DEF Ask, Stages
<1>6. ASSUME MayAsk(e), NEW tokens \in e.tokens..TokenBudget + Headroom, Affordable(tokens),
             NEW proof \in Proofs,
             Set(p, [e EXCEPT !.stage = "verify", !.tokens = tokens, !.proof = proof])
      PROVE  IInv'
  <2> DEFINE new == [e EXCEPT !.stage = "verify", !.tokens = tokens, !.proof = proof]
  <2>1. tokens \in Nat
    BY <1>0
  <2>2. /\ new \in Episode /\ new.stage = "verify" /\ new.tries = e.tries /\ new.tokens = tokens
        /\ new.kept = e.kept /\ new.judged = e.judged /\ new.opening = e.opening
        /\ new.success = e.success
    BY <1>0, <2>1 DEF Episode
  <2>3. EpisodeOK(new) /\ Accounted(new)
    <3> HIDE DEF new
    <3>1. new.kept <= new.judged /\ new.judged <= new.tries /\ new.tries <= MaxAttempts
      BY <1>0, <1>6, <2>2 DEF EpisodeOK, MayAsk
    <3> QED
      BY <1>0, <1>6, <2>1, <2>2, <3>1 DEF EpisodeOK, Accounted, MayAsk, Affordable
  <2> QED
    BY <1>0, <1>6, <2>2, <2>3, Moves DEF Ask, Stages
<1> QED
  BY <1>1, <1>2, <1>3, <1>4, <1>5, <1>6 DEF Ask

\* The counters of an episode whose proof Lean was asked about.
LEMMA AskedLean ==
    ASSUME NEW e, EpisodeOK(e), Accounted(e), e.stage = "verify", NEW new \in Episode,
           new.tries = e.tries + 1, new.tokens = e.tokens, new.opening = e.opening,
           \/ new.judged = e.judged /\ new.kept = e.kept
           \/ new.judged = e.judged + 1 /\ new.kept \in {e.kept, e.kept + 1},
           \/ new.stage = "ask" /\ new.success = e.success
           \/ new.stage = "write"
    PROVE  EpisodeOK(new) /\ Accounted(new)
<1>1. /\ e.tries \in Nat /\ e.tokens \in Nat /\ e.judged \in Nat /\ e.kept \in Nat
      /\ e.opening = "active" /\ ~e.success /\ e.tries < MaxAttempts /\ e.tokens <= TokenBudget
  BY DEF EpisodeOK, Episode, Accounted
<1>2. /\ new.kept <= new.judged /\ new.judged <= new.tries /\ new.tries <= MaxAttempts
      /\ new.tokens <= TokenBudget + Headroom
  BY <1>1 DEF EpisodeOK
<1> QED
  BY <1>1, <1>2 DEF EpisodeOK, Accounted

LEMMA VerifyInv ==
    ASSUME IInv, NEW p \in Pairs, phase = "running", Verify(p)
    PROVE  IInv'
<1> DEFINE old == episode[p]
           e == [old EXCEPT !.tries = @ + 1, !.proof = "none"]
           judged == [e EXCEPT !.judged = @ + 1]
           grown == [judged EXCEPT !.kept = @ + 1]
<1>0. EpisodeOK(old) /\ Accounted(old) /\ old.stage = "verify" /\ old \in Episode
      /\ old.tries \in Nat /\ old.tokens \in Nat /\ old.judged \in Nat /\ old.kept \in Nat
      /\ ~old.success /\ old.opening = "active"
  BY Playing DEF Verify, Accounted
<1>1. /\ e \in Episode /\ e.tries = old.tries + 1 /\ e.tokens = old.tokens
      /\ e.kept = old.kept /\ e.judged = old.judged /\ e.opening = old.opening
      /\ e.success = old.success
  <2> HIDE DEF old
  <2>1. old.tries + 1 \in Nat
    BY <1>0
  <2>2. e \in Episode
    BY <1>0, <2>1 DEF Episode
  <2> QED
    BY <1>0, <2>2 DEF Episode
<1>2. /\ judged \in Episode /\ judged.judged = old.judged + 1 /\ judged.kept = old.kept
      /\ judged.tries = old.tries + 1 /\ judged.tokens = old.tokens
      /\ judged.opening = old.opening /\ judged.success = old.success
  <2> HIDE DEF e
  <2>1. e.judged + 1 \in Nat
    BY <1>0, <1>1
  <2>2. judged \in Episode
    BY <1>1, <2>1 DEF Episode
  <2> QED
    BY <1>1, <2>2 DEF Episode
<1>3. /\ grown \in Episode /\ grown.judged = old.judged + 1 /\ grown.kept = old.kept + 1
      /\ grown.tries = old.tries + 1 /\ grown.tokens = old.tokens
      /\ grown.opening = old.opening /\ grown.success = old.success
  <2> HIDE DEF judged
  <2>1. judged.kept + 1 \in Nat
    BY <1>0, <1>2
  <2>2. grown \in Episode
    BY <1>2, <2>1 DEF Episode
  <2> QED
    BY <1>2, <2>2 DEF Episode
<1>4. ASSUME NEW new \in Episode, Set(p, new), EpisodeOK(new), Accounted(new), new.stage \in Stages
      PROVE  IInv'
  BY <1>0, <1>4, Moves DEF Verify, Stages
<1>5. CASE Set(p, [e EXCEPT !.stage = "ask"])
  <2> DEFINE new == [e EXCEPT !.stage = "ask"]
  <2> HIDE DEF e
  <2>1. /\ new \in Episode /\ new.stage = "ask" /\ new.tries = e.tries /\ new.tokens = e.tokens
        /\ new.kept = e.kept /\ new.judged = e.judged /\ new.opening = e.opening
        /\ new.success = e.success
    BY <1>1 DEF Episode
  <2> HIDE DEF new, old
  <2>2. EpisodeOK(new) /\ Accounted(new)
    BY <1>0, <1>1, <2>1, AskedLean
  <2> QED
    BY <1>4, <1>5, <2>1, <2>2 DEF Stages, new
<1>6. CASE Set(p, Raised(e))
  <2> DEFINE new == Raised(e)
  <2> HIDE DEF e
  <2>1. /\ new \in Episode /\ new.stage = "write" /\ new.tries = e.tries /\ new.tokens = e.tokens
        /\ new.kept = e.kept /\ new.judged = e.judged /\ new.opening = e.opening
        /\ new.success = e.success
    BY <1>1 DEF Episode, Raised
  <2> HIDE DEF new, old
  <2>2. EpisodeOK(new) /\ Accounted(new)
    BY <1>0, <1>1, <2>1, AskedLean
  <2> QED
    BY <1>4, <1>6, <2>1, <2>2 DEF Stages, new
<1>7. CASE Set(p, [grown EXCEPT !.stage = "write", !.success = TRUE])
  <2> DEFINE new == [grown EXCEPT !.stage = "write", !.success = TRUE]
  <2> HIDE DEF grown
  <2>1. /\ new \in Episode /\ new.stage = "write" /\ new.tries = grown.tries
        /\ new.tokens = grown.tokens /\ new.kept = grown.kept /\ new.judged = grown.judged
        /\ new.opening = grown.opening
    BY <1>3 DEF Episode
  <2> HIDE DEF new, old
  <2>2. EpisodeOK(new) /\ Accounted(new)
    BY <1>0, <1>3, <2>1, AskedLean
  <2> QED
    BY <1>4, <1>7, <2>1, <2>2 DEF Stages, new
<1>8. CASE Set(p, [grown EXCEPT !.stage = "ask"])
  <2> DEFINE new == [grown EXCEPT !.stage = "ask"]
  <2> HIDE DEF grown
  <2>1. /\ new \in Episode /\ new.stage = "ask" /\ new.tries = grown.tries
        /\ new.tokens = grown.tokens /\ new.kept = grown.kept /\ new.judged = grown.judged
        /\ new.opening = grown.opening /\ new.success = grown.success
    BY <1>3 DEF Episode
  <2> HIDE DEF new, old
  <2>2. EpisodeOK(new) /\ Accounted(new)
    BY <1>0, <1>3, <2>1, AskedLean
  <2> QED
    BY <1>4, <1>8, <2>1, <2>2 DEF Stages, new
<1>9. CASE Set(p, [judged EXCEPT !.stage = "ask"])
  <2> DEFINE new == [judged EXCEPT !.stage = "ask"]
  <2> HIDE DEF judged
  <2>1. /\ new \in Episode /\ new.stage = "ask" /\ new.tries = judged.tries
        /\ new.tokens = judged.tokens /\ new.kept = judged.kept /\ new.judged = judged.judged
        /\ new.opening = judged.opening /\ new.success = judged.success
    BY <1>2 DEF Episode
  <2> HIDE DEF new, old
  <2>2. EpisodeOK(new) /\ Accounted(new)
    BY <1>0, <1>2, <2>1, AskedLean
  <2> QED
    BY <1>4, <1>9, <2>1, <2>2 DEF Stages, new
<1>10. CASE Set(p, Raised(judged))
  <2> DEFINE new == Raised(judged)
  <2> HIDE DEF judged
  <2>1. /\ new \in Episode /\ new.stage = "write" /\ new.tries = judged.tries /\ new.tokens = judged.tokens
        /\ new.kept = judged.kept /\ new.judged = judged.judged /\ new.opening = judged.opening
        /\ new.success = judged.success
    BY <1>2 DEF Episode, Raised
  <2> HIDE DEF new, old
  <2>2. EpisodeOK(new) /\ Accounted(new)
    BY <1>0, <1>2, <2>1, AskedLean
  <2> QED
    BY <1>4, <1>10, <2>1, <2>2 DEF Stages, new
<1>11. CASE Set(p, Raised(grown))
  <2> DEFINE new == Raised(grown)
  <2> HIDE DEF grown
  <2>1. /\ new \in Episode /\ new.stage = "write" /\ new.tries = grown.tries /\ new.tokens = grown.tokens
        /\ new.kept = grown.kept /\ new.judged = grown.judged /\ new.opening = grown.opening
        /\ new.success = grown.success
    BY <1>3 DEF Episode, Raised
  <2> HIDE DEF new, old
  <2>2. EpisodeOK(new) /\ Accounted(new)
    BY <1>0, <1>3, <2>1, AskedLean
  <2> QED
    BY <1>4, <1>11, <2>1, <2>2 DEF Stages, new
<1>12. CASE Set(p, [e EXCEPT !.stage = "write"])
  <2> DEFINE new == [e EXCEPT !.stage = "write"]
  <2> HIDE DEF e
  <2>1. /\ new \in Episode /\ new.stage = "write" /\ new.tries = e.tries /\ new.tokens = e.tokens
        /\ new.kept = e.kept /\ new.judged = e.judged /\ new.opening = e.opening
        /\ new.success = e.success
    BY <1>1 DEF Episode
  <2> HIDE DEF new, old
  <2>2. EpisodeOK(new) /\ Accounted(new)
    BY <1>0, <1>1, <2>1, AskedLean
  <2> QED
    BY <1>4, <1>12, <2>1, <2>2 DEF Stages, new
<1> QED
  BY <1>5, <1>6, <1>7, <1>8, <1>9, <1>10, <1>11, <1>12 DEF Verify

\* What an outcome in Unmeasured says of an episode, and what silence is filed as.
LEMMA Outcomes ==
    ASSUME NEW e, EpisodeOK(e), Accounted(e)
    PROVE  /\ OutcomeOf(e) = "solved" => e.tokens <= TokenBudget
           /\ OutcomeOf(e) \in Unmeasured /\ ~e.raised => e.judged = 0 /\ e.tries = 0
           /\ e.tries = 0 /\ e.tokens = 0 /\ e.opening # "statement" => OutcomeOf(e) \in Unmeasured
<1>1. e.tries \in Nat /\ e.judged \in Nat /\ e.opening \in {"active", "statement", "verifier"}
  BY DEF EpisodeOK, Episode
<1>2. e.judged <= e.tries
  BY DEF EpisodeOK
<1> QED
  BY <1>1, <1>2 DEF OutcomeOf, Unmeasured, GeneratorEmpty, Accounted

LEMMA WriteInv ==
    ASSUME IInv, NEW p \in Pairs, phase = "running", Write(p)
    PROVE  IInv'
<1> DEFINE nothing == OutcomeOf(episode[p]) \in Unmeasured
<1>1. /\ episode' = [episode EXCEPT ![p] = Over] /\ UNCHANGED <<phase, starts, torn, round, done>>
      /\ episode \in [Pairs -> Episode] /\ episode[p].stage = "write" /\ p[2] = round
      /\ file \in [Pairs -> [answer : Nat, nothing : Nat]]
  BY DEF Write, Set, IInv, TypeOK
<1>2. /\ empties' = IF nothing THEN empties + 1 ELSE 0
      /\ file' = IF nothing THEN [file EXCEPT ![p].nothing = @ + 1]
                            ELSE [file EXCEPT ![p].answer = @ + 1]
  BY Zenon DEF Write
<1>s. /\ stopping' \in BOOLEAN /\ (stopping => stopping')
      /\ ~stopping' => ~(empties' >= EmptyRunAbort)
  BY Zenon DEF Write
<1>3. /\ file' \in [Pairs -> [answer : Nat, nothing : Nat]] /\ Total(p)' = 1
      /\ \A q \in Pairs \ {p} : file'[q] = file[q]
  <2>0. file[p].answer \in Nat /\ file[p].nothing \in Nat /\ RowOnce(p)
        /\ episode[p].stage # "over"
    BY <1>1 DEF IInv, RowsOnce
  <2>1. file[p].answer = 0 /\ file[p].nothing = 0
    BY <2>0 DEF RowOnce, Total
  <2>2. file[p] = [answer |-> 0, nothing |-> 0]
    BY <1>1, <2>1
  <2>3. file'[p] \in {[answer |-> 0, nothing |-> 1], [answer |-> 1, nothing |-> 0]}
    <3> HIDE DEF nothing
    <3>1. CASE nothing
      BY <1>1, <1>2, <2>2, <3>1
    <3>2. CASE ~nothing
      BY <1>1, <1>2, <2>2, <3>2
    <3> QED
      BY <3>1, <3>2
  <2>4. file' = [file EXCEPT ![p] = file'[p]]
    BY <1>1, <1>2
  <2> QED
    BY <1>1, <2>3, <2>4 DEF Total
<1>4. empties' \in Nat /\ empties' <= empties + 1
  BY <1>2 DEF IInv, TypeOK
<1>5. Underway' = Underway \ {p} /\ p \in Underway
  BY <1>1, FreshOver DEF Underway
<1>6. /\ IsFiniteSet(Underway') /\ Cardinality(Underway') = Cardinality(Underway) - 1
      /\ Cardinality(Underway) \in Nat /\ Cardinality(Underway') \in Nat
  BY <1>5, FS_RemoveElement, FS_CardinalityType DEF IInv, Waste
<1>7. TypeOK'
  <2>1. episode' \in [Pairs -> Episode] /\ \A q \in Pairs : EpisodeOK(episode'[q])
    BY <1>1, FreshOver DEF IInv, TypeOK, EpisodeOK
  <2>2. \A q \in Pairs : episode'[q].stage # "over" => phase = "running" /\ q[2] = round
    BY <1>1, FreshOver DEF IInv, TypeOK
  <2>3. Cardinality(Underway') <= Concurrency
    BY <1>6 DEF IInv, TypeOK
  <2> QED
    BY <1>1, <1>3, <1>4, <1>s, <2>1, <2>2, <2>3 DEF IInv, TypeOK, EpisodeOK
<1>8. (\A q \in Pairs : Accounted(episode[q]))'
  BY <1>1, FreshOver DEF IInv, Accounted
<1>9. RowsOnce'
  <2>1. ASSUME NEW q \in Pairs
        PROVE  RowOnce(q)'
    <3>1. CASE q = p
      <4>1. ~(q[2] > round)
        BY <1>1, <3>1 DEF IInv, TypeOK
      <4> QED
        BY <1>1, <1>3, <3>1, <4>1, FreshOver DEF RowOnce
    <3>2. CASE q # p
      <4>1. Total(q)' = Total(q) /\ episode'[q] = episode[q]
        BY <1>1, <1>3, <3>2 DEF Total
      <4> QED
        BY <1>1, <4>1 DEF IInv, RowsOnce, RowOnce
    <3> QED
      BY <3>1, <3>2
  <2> QED
    BY <2>1 DEF RowsOnce
<1>10. RowsComplete'
  <2>1. OnFile(file)' = OnFile(file) \cup {p}
    BY <1>3 DEF OnFile, Total
  <2> QED
    BY <1>1, <1>s, <2>1 DEF IInv, RowsComplete, FinishedIsComplete
<1>11. Waste'
  BY <1>4, <1>6, <1>s DEF IInv, TypeOK, Waste
<1> QED
  BY <1>7, <1>8, <1>9, <1>10, <1>11 DEF IInv

\* What a gather creates, and what it does not.
LEMMA GatheredType ==
    ASSUME NEW attempt, NEW found
    PROVE  /\ Gathered(attempt, found) \in [Pairs -> Episode]
           /\ \A p \in Pairs : LET e == Gathered(attempt, found)[p] IN
                 /\ EpisodeOK(e) /\ Accounted(e) /\ e.stage \in {"queued", "over"}
                 /\ e.stage = "over" <=> (p[2] # attempt \/ p \in found)
<1>1. \A p \in Pairs : Gathered(attempt, found)[p] =
                          IF p[2] = attempt /\ p \notin found THEN Fresh ELSE Over
  BY DEF Gathered
<1>2. Gathered(attempt, found) = [p \in Pairs |-> Gathered(attempt, found)[p]]
  BY DEF Gathered
<1> QED
  BY <1>1, <1>2, FreshOver DEF EpisodeOK

\* Nobody is under way once the episodes are all queued or over.
LEMMA NobodyUnderway ==
    ASSUME \A p \in Pairs : episode[p].stage \in {"queued", "over"}
    PROVE  IsFiniteSet(Underway) /\ Cardinality(Underway) = 0
<1>1. Underway = {}
  BY DEF Underway
<1> QED
  BY <1>1, FS_EmptySet

\* A process that ends, or starts with nobody playing.
LEMMA AllOver ==
    ASSUME \A p \in Pairs : episode[p] = Over
    PROVE  /\ \A p \in Pairs : EpisodeOK(episode[p]) /\ Accounted(episode[p])
                               /\ episode[p].stage = "over"
           /\ IsFiniteSet(Underway) /\ Cardinality(Underway) = 0
BY FreshOver, NobodyUnderway

LEMMA StartInv ==
    ASSUME IInv, NEW resume \in BOOLEAN, NEW answers \in BOOLEAN, Start(resume, answers)
    PROVE  IInv'
<1>1. /\ phase # "running" /\ starts' \in 0..MaxStarts /\ torn' = FALSE
      /\ round' = 1 /\ empties' = 0 /\ stopping' = FALSE
      /\ phase' = IF answers THEN "running" ELSE "idle"
      /\ episode' = IF answers THEN Gathered(1, done') ELSE [p \in Pairs |-> Over]
  BY DEF Start, NewProcess, IInv, TypeOK
<1>2. /\ file' \in [Pairs -> [answer : Nat, nothing : Nat]] /\ done' = OnFile(file)'
      /\ \A p \in Pairs : Total(p)' \in 0..1 /\ (Total(p)' > 0 <=> p \in done')
  <2>1. CASE resume
    <3>1. file' = file /\ done' = OnFile(file)
      BY <2>1 DEF Start
    <3>2. \A p \in Pairs : Total(p) \in 0..1
      <4>1. \A p \in Pairs : Total(p) \in Nat /\ RowOnce(p)
        BY DEF IInv, TypeOK, Total, RowsOnce
      <4> QED
        BY <4>1 DEF RowOnce
    <3> QED
      BY <3>1, <3>2 DEF OnFile, Total, IInv, TypeOK
  <2>2. CASE ~resume
    <3>1. file' = EmptyFile /\ done' = {}
      BY <2>2 DEF Start
    <3>2. \A p \in Pairs : EmptyFile[p] = [answer |-> 0, nothing |-> 0]
      BY DEF EmptyFile
    <3>3. EmptyFile \in [Pairs -> [answer : Nat, nothing : Nat]]
      BY DEF EmptyFile
    <3> QED
      BY <3>1, <3>2, <3>3 DEF OnFile, Total
  <2> QED
    BY <2>1, <2>2
<1>3. /\ episode' \in [Pairs -> Episode]
      /\ \A p \in Pairs : /\ EpisodeOK(episode'[p]) /\ Accounted(episode'[p])
                          /\ episode'[p].stage \in {"queued", "over"}
                          /\ answers => (episode'[p].stage = "over" <=> (p[2] # 1 \/ p \in done'))
                          /\ ~answers => episode'[p].stage = "over"
  <2>1. CASE answers
    BY <1>1, <2>1, GatheredType
  <2>2. CASE ~answers
    BY <1>1, <2>2, FreshOver DEF EpisodeOK
  <2> QED
    BY <2>1, <2>2
<1>4. (IsFiniteSet(Underway) /\ Cardinality(Underway) = 0)'
  <2>1. Underway' = {}
    BY <1>3 DEF Underway
  <2> QED
    BY <2>1, FS_EmptySet
<1>5. TypeOK'
  <2>1. \A p \in Pairs : episode'[p].stage # "over" => phase' = "running" /\ p[2] = round'
    BY <1>1, <1>3
  <2>2. torn' \in BOOLEAN /\ stopping' \in BOOLEAN
    BY <1>1, Zenon
  <2>3. done' \subseteq Pairs /\ round' \in 1..Attempts /\ empties' \in Nat
    BY <1>1, <1>2 DEF OnFile
  <2>4. phase' \in {"idle", "running", "finished", "aborted"}
    BY <1>1
  <2>5. (\A p \in Pairs : EpisodeOK(episode[p]))'
    BY <1>3 DEF EpisodeOK
  <2>6. Cardinality(Underway)' <= Concurrency
    BY <1>4
  <2> QED
    BY <1>1, <1>2, <1>3, <2>1, <2>2, <2>3, <2>4, <2>5, <2>6 DEF TypeOK
<1>6. (\A p \in Pairs : Accounted(episode[p]))'
  BY <1>3 DEF Accounted
<1>7. RowsOnce'
  <2>1. ASSUME NEW p \in Pairs PROVE RowOnce(p)'
    BY <1>1, <1>2, <1>3 DEF RowOnce
  <2> QED
    BY <2>1 DEF RowsOnce
<1>8. RowsComplete'
  <2>1. phase' # "finished" /\ done' = OnFile(file)'
    BY <1>1, <1>2
  <2>2. ASSUME phase' = "running", NEW p \in Pairs, p[2] <= 1, episode'[p].stage = "over"
        PROVE  p \in OnFile(file)'
    <3>1. p[2] \in 1..Attempts
      BY DEF Pairs
    <3> QED
      BY <1>1, <1>2, <1>3, <2>2, <3>1
  <2> QED
    BY <1>1, <2>1, <2>2 DEF RowsComplete, FinishedIsComplete
<1>9. Waste'
  BY <1>1, <1>4 DEF Waste
<1> QED
  BY <1>5, <1>6, <1>7, <1>8, <1>9 DEF IInv

LEMMA NextRoundInv == ASSUME IInv, NextRound PROVE IInv'
<1>1. /\ phase = "running" /\ (\A p \in Pairs : episode[p].stage = "over")
      /\ UNCHANGED <<starts, file, torn, done, empties, stopping>>
  BY DEF NextRound
<1>2. \A p \in Pairs : Total(p)' = Total(p)
  BY <1>1 DEF Total
<1>3. IsFiniteSet(Underway) /\ Cardinality(Underway) = 0
  BY <1>1, NobodyUnderway
<1>4. CASE Goes
  <2>1. /\ round' = round + 1 /\ episode' = Gathered(round + 1, done) /\ phase' = phase
        /\ round + 1 \in 1..Attempts /\ ~stopping
    BY <1>4 DEF NextRound, Goes, IInv, TypeOK
  <2>2. /\ episode' \in [Pairs -> Episode]
        /\ \A p \in Pairs : /\ EpisodeOK(episode'[p]) /\ Accounted(episode'[p])
                            /\ episode'[p].stage \in {"queued", "over"}
                            /\ episode'[p].stage = "over" <=> (p[2] # round + 1 \/ p \in done)
    BY <2>1, GatheredType
  <2>3. (IsFiniteSet(Underway) /\ Cardinality(Underway) = 0)'
    <3>1. Underway' = {}
      BY <2>2 DEF Underway
    <3> QED
      BY <3>1, FS_EmptySet
  <2>4. TypeOK'
    <3>1. \A p \in Pairs : episode'[p].stage # "over" => phase' = "running" /\ p[2] = round'
      BY <1>1, <2>1, <2>2
    <3>2. (\A p \in Pairs : EpisodeOK(episode[p]))'
      BY <2>2 DEF EpisodeOK
    <3> QED
      BY <1>1, <2>1, <2>2, <2>3, <3>1, <3>2 DEF IInv, TypeOK
  <2>5. (\A p \in Pairs : Accounted(episode[p]))'
    BY <2>2 DEF Accounted
  <2>6. RowsOnce'
    <3>1. ASSUME NEW p \in Pairs PROVE RowOnce(p)'
      <4>1. p[2] \in Nat /\ round \in Nat
        BY DEF Pairs, IInv, TypeOK
      <4> QED
        BY <1>1, <1>2, <2>1, <2>2, <4>1 DEF IInv, RowsOnce, RowOnce
    <3> QED
      BY <3>1 DEF RowsOnce
  <2>7. RowsComplete'
    <3>1. ASSUME NEW p \in Pairs, p[2] <= round + 1, episode'[p].stage = "over"
          PROVE  p \in OnFile(file)
      <4>1. p[2] \in Nat /\ round \in Nat
        BY DEF Pairs, IInv, TypeOK
      <4> QED
        BY <1>1, <2>1, <2>2, <3>1, <4>1 DEF IInv, RowsComplete
    <3>2. OnFile(file)' = OnFile(file)
      BY <1>1 DEF OnFile
    <3> QED
      BY <1>1, <2>1, <3>1, <3>2 DEF IInv, RowsComplete, FinishedIsComplete
  <2>8. Waste'
    BY <1>1, <1>3, <2>3 DEF IInv, Waste
  <2> QED
    BY <2>4, <2>5, <2>6, <2>7, <2>8 DEF IInv
<1>5. CASE ~Goes
  <2>1. /\ phase' \in {"aborted", "finished"} /\ UNCHANGED <<round, episode>>
        /\ phase' = "finished" => ~stopping /\ round >= Attempts
    BY <1>5 DEF NextRound, Goes, IInv, TypeOK
  <2>2. TypeOK'
    BY <1>1, <2>1 DEF IInv, TypeOK, Underway, EpisodeOK
  <2>3. (\A p \in Pairs : Accounted(episode[p]))'
    BY <2>1 DEF IInv, Accounted
  <2>4. RowsOnce'
    BY <1>1, <1>2, <2>1 DEF IInv, RowsOnce, RowOnce
  <2>5. RowsComplete'
    <3>1. ASSUME phase' = "finished" PROVE OnFile(file) = Pairs
      <4>1. \A p \in Pairs : p[2] <= round
        BY <2>1, <3>1 DEF Pairs, IInv, TypeOK
      <4> QED
        BY <1>1, <2>1, <3>1, <4>1 DEF IInv, RowsComplete, OnFile
    <3>2. OnFile(file)' = OnFile(file)
      BY <1>1 DEF OnFile
    <3> QED
      BY <2>1, <3>1, <3>2 DEF RowsComplete, FinishedIsComplete
  <2>6. Waste'
    BY <1>1, <2>1 DEF IInv, Waste, Underway
  <2> QED
    BY <2>2, <2>3, <2>4, <2>5, <2>6 DEF IInv
<1> QED
  BY <1>4, <1>5

LEMMA CrashInv == ASSUME IInv, Crash PROVE IInv'
<1>1. /\ phase' = "idle" /\ episode' = [p \in Pairs |-> Over] /\ UNCHANGED <<starts, file, done>>
      /\ round' = 1 /\ empties' = 0 /\ stopping' = FALSE
  BY DEF Crash, NewProcess
<1>2. torn' \in BOOLEAN
  BY Zenon DEF Crash
<1>3. /\ \A p \in Pairs : EpisodeOK(episode'[p]) /\ Accounted(episode'[p])
                          /\ episode'[p].stage = "over"
      /\ episode' \in [Pairs -> Episode]
  BY <1>1, FreshOver DEF EpisodeOK
<1>4. (IsFiniteSet(Underway) /\ Cardinality(Underway) = 0)'
  <2>1. Underway' = {}
    BY <1>3 DEF Underway
  <2> QED
    BY <2>1, FS_EmptySet
<1>5. TypeOK'
  <2>1. (\A p \in Pairs : EpisodeOK(episode[p]))'
    BY <1>3 DEF EpisodeOK
  <2>2. \A p \in Pairs : episode'[p].stage # "over" => phase' = "running" /\ p[2] = round'
    BY <1>3
  <2>3. /\ round' \in 1..Attempts /\ empties' \in Nat
        /\ phase' \in {"idle", "running", "finished", "aborted"}
    BY <1>1
  <2>4. stopping' \in BOOLEAN
    BY <1>1, Zenon
  <2> QED
    BY <1>1, <1>2, <1>3, <1>4, <2>1, <2>2, <2>3, <2>4 DEF IInv, TypeOK
<1>6. (\A p \in Pairs : Accounted(episode[p]))'
  BY <1>3 DEF Accounted
<1>7. RowsOnce'
  <2>1. ASSUME NEW p \in Pairs PROVE RowOnce(p)'
    <3>1. Total(p)' = Total(p)
      BY <1>1 DEF Total
    <3> QED
      BY <1>1, <1>3, <3>1 DEF IInv, RowsOnce, RowOnce
  <2> QED
    BY <2>1 DEF RowsOnce
<1>8. RowsComplete' /\ Waste'
  BY <1>1, <1>4 DEF RowsComplete, FinishedIsComplete, Waste
<1> QED
  BY <1>5, <1>6, <1>7, <1>8 DEF IInv

LEMMA DropInv == ASSUME IInv, DropUnmeasured PROVE IInv'
<1>1. /\ phase # "running" /\ phase' = "idle" /\ UNCHANGED <<starts, episode, torn, process>>
      /\ file' = [p \in Pairs |-> [file[p] EXCEPT !.nothing = 0]]
  BY DEF DropUnmeasured
<1>2. /\ file' \in [Pairs -> [answer : Nat, nothing : Nat]]
      /\ \A p \in Pairs : file'[p].answer = file[p].answer /\ file'[p].nothing = 0
  BY <1>1 DEF IInv, TypeOK
<1>3. \A p \in Pairs : episode[p].stage = "over"
  BY <1>1 DEF IInv, TypeOK
<1>4. TypeOK'
  BY <1>1, <1>2, <1>3 DEF IInv, TypeOK, process, Underway, EpisodeOK
<1>5. RowsOnce'
  <2>1. ASSUME NEW p \in Pairs PROVE RowOnce(p)'
    <3>1. file[p].answer \in Nat /\ file[p].nothing \in Nat /\ RowOnce(p)
      BY DEF IInv, TypeOK, RowsOnce
    <3>2. Total(p)' <= 1
      BY <1>2, <3>1 DEF RowOnce, Total
    <3> QED
      BY <1>1, <1>3, <3>2 DEF RowOnce
  <2> QED
    BY <2>1 DEF RowsOnce
<1>6. (\A p \in Pairs : Accounted(episode[p]))'
  BY <1>1 DEF IInv, Accounted
<1>7. RowsComplete' /\ Waste'
  BY <1>1 DEF IInv, RowsComplete, FinishedIsComplete, Waste, process, Underway
<1> QED
  BY <1>4, <1>5, <1>6, <1>7 DEF IInv

\* IInv is inductive, one step per action.
LEMMA NextInv == IInv /\ [Next]_vars => IInv'
<1> SUFFICES ASSUME IInv, [Next]_vars PROVE IInv'
  OBVIOUS
<1>1. CASE \E resume, answers \in BOOLEAN : Start(resume, answers)
  BY <1>1, StartInv
<1>2. ASSUME NEW p \in Pairs, Play(p) PROVE IInv'
  BY <1>2, EnterInv, ResetInv, AskInv, VerifyInv, WriteInv DEF Play
<1>3. CASE NextRound
  BY <1>3, NextRoundInv
<1>4. CASE Crash
  BY <1>4, CrashInv
<1>5. CASE DropUnmeasured
  BY <1>5, DropInv
<1>6. CASE UNCHANGED vars
  BY <1>6 DEF vars, process, IInv, TypeOK, EpisodeOK, Accounted, RowsOnce, RowOnce, Total,
              RowsComplete, FinishedIsComplete, OnFile, Waste, Underway
<1> QED
  BY <1>1, <1>2, <1>3, <1>4, <1>5, <1>6 DEF Next

\* The inductive invariant holds of every behaviour of a cell.
THEOREM Invariance == Spec => []IInv
BY InitInv, NextInv, PTL DEF Spec

\* Every episode's counters stay in their ranges, and no more episodes are under
\* way than args.episode_concurrency lets through the gate.
THEOREM TypeCorrect == Spec => []TypeOK
<1>1. IInv => TypeOK
  BY DEF IInv
<1> QED
  BY <1>1, Invariance, PTL

\* Killed, resumed, cleared and aborted in any order, the episodes file never
\* holds two rows of one (row, attempt).
THEOREM NoAttemptTwice == Spec => []OneRowPerPair
<1>1. IInv => OneRowPerPair
  BY DEF IInv, RowsOnce, RowOnce, Total, OneRowPerPair
<1> QED
  BY <1>1, Invariance, PTL

\* A run that ends without an abort leaves every attempt of every row on file.
THEOREM NoAttemptMissing == Spec => []FinishedIsComplete
<1>1. IInv => FinishedIsComplete
  BY DEF IInv, RowsComplete
<1> QED
  BY <1>1, Invariance, PTL

\* However many episodes play at once, a process wastes at most the streak that
\* stops it and the episodes then in flight.
THEOREM AbortBoundsWaste == Spec => []WasteIsBounded
<1>1. IInv => WasteIsBounded
  <2>1. IInv => Cardinality(Underway) \in Nat
    BY FS_CardinalityType DEF IInv, Waste
  <2> QED
    BY <2>1 DEF IInv, TypeOK, Waste, WasteIsBounded
<1> QED
  BY <1>1, Invariance, PTL

\* No outcome that is dropped as unmeasured hides a verdict of Lean, and nothing
\* solved beyond its budget is filed as solved.
THEOREM FaultsAreNotAnswers == Spec => []OutcomeSeparatesFaults
<1>1. IInv => OutcomeSeparatesFaults
  BY Playing, Outcomes DEF IInv, OutcomeSeparatesFaults
<1> QED
  BY <1>1, Invariance, PTL

\* Silence, of the generator or of the verifier, is never filed as an answer.
THEOREM SilenceIsNotAnAnswer == Spec => []SilenceIsUnmeasured
<1>1. IInv => SilenceIsUnmeasured
  BY Playing, Outcomes DEF IInv, SilenceIsUnmeasured
<1> QED
  BY <1>1, Invariance, PTL
=============================================================================
