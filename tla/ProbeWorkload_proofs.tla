------------------------ MODULE ProbeWorkload_proofs ------------------------
(***************************************************************************)
(* For any limits, events and ways to combine the two workloads, and       *)
(* whatever the benchmark and the CUDA program do: a probe that passed has *)
(* really run, nothing outlives a probe, a voltage is blacklisted only for *)
(* a reason, and every crash puts it there.                                *)
(***************************************************************************)
EXTENDS ProbeWorkload, TLAPS, SequenceTheorems, FiniteSetTheorems, WellFoundedInduction

InLoop == pc \in {"drain", "judge"}

\* The kinds of events of this run, read or not.
Seen == heard \cup ToSet(pipe)

-----------------------------------------------------------------------------
(* The lines of the pipe. *)

\* The numbers up to a bound have a greatest member.
LEMMA GreatestExists ==
    ASSUME NEW n \in Nat, NEW S \in SUBSET (1..n), S # {}
    PROVE  \E i \in S : \A j \in S : j <= i
<1> DEFINE R == {ss \in Nat \X Nat : ss[1] < ss[2]}
           T == {n - s : s \in S}
<1>1. IsWellFoundedOn(R, Nat)
  BY NatLessThanWellFounded, Zenon DEF OpToRel
<1>2. T \in SUBSET Nat /\ T # {}
  <2>1. \A s \in S : n - s \in Nat
    OBVIOUS
  <2> QED BY <2>1
<1>3. PICK t \in T : \A u \in T : ~ (<<u, t>> \in R)
  <2> HIDE DEF R, T
  <2> QED BY <1>1, <1>2, WFMin
<1>4. PICK s \in S : t = n - s
  OBVIOUS
<1>5. ASSUME NEW r \in S PROVE r <= s
  <2>1. n - r \in T /\ ~ (<<n - r, n - s>> \in R)
    BY <1>3, <1>4
  <2>2. n - r \in Nat /\ n - s \in Nat
    OBVIOUS
  <2>3. <<n - r, n - s>>[1] = n - r /\ <<n - r, n - s>>[2] = n - s
    OBVIOUS
  <2>4. ~ (n - r < n - s)
    BY <2>1, <2>2, <2>3
  <2> QED BY <2>4
<1> QED BY <1>5

\* Half a line is the last one.
CutIsLast == \A i \in 1..Len(pipe) : pipe[i] = "cut" => i = Len(pipe)

PipeOK == pipe \in Seq(GameEvents \cup {"cut"}) /\ CutIsLast

LEMMA PipeTyped ==
    ASSUME pipe \in Seq(GameEvents \cup {"cut"})
    PROVE  /\ Len(pipe) \in Nat /\ DOMAIN pipe = 1..Len(pipe)
           /\ ToSet(pipe) = {pipe[i] : i \in 1..Len(pipe)}
           /\ ToSet(pipe) \subseteq GameEvents \cup {"cut"}
<1>1. Len(pipe) \in Nat /\ DOMAIN pipe = 1..Len(pipe)
  BY LenProperties
<1>2. \A i \in 1..Len(pipe) : pipe[i] \in GameEvents \cup {"cut"}
  BY ElementOfSeq
<1> QED BY <1>1, <1>2 DEF ToSet

\* An event more at the end of the pipe.
LEMMA AppendToPipe ==
    ASSUME pipe \in Seq(GameEvents \cup {"cut"}), NEW e \in GameEvents \cup {"cut"},
           pipe' = Append(pipe, e)
    PROVE  /\ pipe' \in Seq(GameEvents \cup {"cut"})
           /\ Len(pipe') = Len(pipe) + 1
           /\ \A i \in 1..Len(pipe) : pipe'[i] = pipe[i]
           /\ pipe'[Len(pipe) + 1] = e
           /\ ToSet(pipe') = ToSet(pipe) \cup {e}
<1>2. /\ pipe' \in Seq(GameEvents \cup {"cut"}) /\ Len(pipe') = Len(pipe) + 1
      /\ \A i \in 1..Len(pipe) : pipe'[i] = pipe[i]
      /\ pipe'[Len(pipe) + 1] = e
  BY AppendProperties
<1>3. Len(pipe) \in Nat /\ DOMAIN pipe = 1..Len(pipe)
  BY PipeTyped
<1>4. DOMAIN pipe' = 1..Len(pipe) + 1
  BY <1>2, LenProperties
<1>5. {pipe'[i] : i \in 1..Len(pipe) + 1} = {pipe[i] : i \in 1..Len(pipe)} \cup {e}
  <2>1. 1..Len(pipe) + 1 = (1..Len(pipe)) \cup {Len(pipe) + 1}
    BY <1>3
  <2> QED BY <1>2, <2>1
<1> QED BY <1>2, <1>3, <1>4, <1>5 DEF ToSet

\* The lines are the events before it.
LEMMA LinesTyped ==
    ASSUME PipeOK
    PROVE  /\ Len(Lines) \in Nat /\ Len(Lines) <= Len(pipe)
           /\ \A i \in 1..Len(Lines) : Lines[i] = pipe[i] /\ Lines[i] \in GameEvents
           /\ ToSet(Lines) = ToSet(pipe) \ {"cut"}
<1>1. Len(pipe) \in Nat /\ DOMAIN pipe = 1..Len(pipe)
  BY PipeTyped DEF PipeOK
<1>2. \A i \in 1..Len(pipe) : pipe[i] \in GameEvents \cup {"cut"}
  BY ElementOfSeq DEF PipeOK
<1>3. "cut" \notin GameEvents
  BY WorkloadAssumption
<1>4. CASE ~Cut
  <2>1. Lines = pipe
    BY <1>4 DEF Lines
  <2>2. \A i \in 1..Len(pipe) : pipe[i] # "cut"
    BY <1>1, <1>4 DEF Cut, ToSet
  <2>3. "cut" \notin ToSet(pipe)
    BY <1>4 DEF Cut
  <2> QED BY <1>1, <1>2, <2>1, <2>2, <2>3
<1>5. CASE Cut
  <2>1. PICK k \in 1..Len(pipe) : pipe[k] = "cut"
    BY <1>1, <1>5 DEF Cut, ToSet
  <2>a. k = Len(pipe)
    BY <2>1 DEF PipeOK, CutIsLast
  <2>2. k = Len(pipe) /\ Len(pipe) - 1 \in Nat
    BY <1>1, <2>1, <2>a
  <2>3. \A i \in 1..Len(pipe) - 1 : pipe[i] # "cut" /\ pipe[i] \in GameEvents
    <3> SUFFICES ASSUME NEW i \in 1..Len(pipe) - 1
                 PROVE  pipe[i] # "cut" /\ pipe[i] \in GameEvents
      OBVIOUS
    <3>1. \A n \in Nat : \A j \in 1..n - 1 : j \in 1..n /\ j # n
      OBVIOUS
    <3>2. i \in 1..Len(pipe) /\ i # Len(pipe)
      BY <1>1, <3>1
    <3> QED BY <1>2, <3>2 DEF PipeOK, CutIsLast
  <2>4. Lines = SubSeq(pipe, 1, Len(pipe) - 1)
    BY <1>5 DEF Lines, Front
  <2>5. /\ Lines \in Seq(GameEvents) /\ Len(Lines) = Len(pipe) - 1
        /\ \A i \in 1..Len(pipe) - 1 : Lines[i] = pipe[i]
    <3>1. Len(pipe) - 1 \in Int /\ \A i \in 1..Len(pipe) - 1 : pipe[i] \in GameEvents
      BY <2>2, <2>3
    <3>2. /\ SubSeq(pipe, 1, Len(pipe) - 1) \in Seq(GameEvents)
          /\ Len(SubSeq(pipe, 1, Len(pipe) - 1)) =
                IF 1 <= Len(pipe) - 1 THEN Len(pipe) - 1 - 1 + 1 ELSE 0
          /\ \A i \in 1..Len(pipe) - 1 - 1 + 1 : SubSeq(pipe, 1, Len(pipe) - 1)[i] = pipe[1 + i - 1]
      BY <3>1, SubSeqProperties
    <3>3. \A i \in 1..Len(pipe) - 1 : 1 + i - 1 = i /\ i \in 1..Len(pipe) - 1 - 1 + 1
      BY <2>2
    <3>4. Len(Lines) = Len(pipe) - 1
      BY <2>2, <2>4, <3>2
    <3> QED BY <2>4, <3>2, <3>3, <3>4
  <2>6. DOMAIN Lines = 1..Len(pipe) - 1
    BY <2>5, LenProperties
  <2>7. ToSet(Lines) = {pipe[i] : i \in 1..Len(pipe) - 1}
    BY <2>5, <2>6 DEF ToSet
  <2>8. 1..Len(pipe) = (1..Len(pipe) - 1) \cup {Len(pipe)}
    BY <2>2
  <2>9. ToSet(pipe) = {pipe[i] : i \in 1..Len(pipe) - 1} \cup {"cut"}
    BY <1>1, <2>1, <2>2, <2>8 DEF ToSet
  <2>10. \A i \in 1..Len(Lines) : Lines[i] = pipe[i] /\ Lines[i] \in GameEvents
    BY <2>3, <2>5
  <2>11. "cut" \notin {pipe[i] : i \in 1..Len(pipe) - 1}
    BY <2>3
  <2>12. Len(Lines) \in Nat /\ Len(Lines) <= Len(pipe)
    BY <1>1, <2>2, <2>5
  <2> QED BY <2>7, <2>9, <2>10, <2>11, <2>12
<1> QED BY <1>4, <1>5

LEMMA ResetTyped == PipeOK =>
    /\ LastReset \in 0..Len(Lines)
    /\ LastReset # 0 => Lines[LastReset] \in Resets
    /\ \A i \in 1..Len(Lines) : Lines[i] \in Resets => i <= LastReset
<1> HAVE PipeOK
<1> DEFINE at == {i \in 1..Len(Lines) : Lines[i] \in Resets}
<1>1. Len(Lines) \in Nat
  BY LinesTyped
<1>2. LastReset = IF at = {} THEN 0 ELSE CHOOSE i \in at : \A j \in at : j <= i
  BY DEF LastReset
<1>3. at # {} => \E i \in at : \A j \in at : j <= i
  BY <1>1, GreatestExists
<1>4. CASE at = {}
  <2>1. LastReset = 0
    BY <1>2, <1>4
  <2> QED BY <1>1, <1>4, <2>1
<1>5. CASE at # {}
  <2>1. LastReset \in at /\ \A j \in at : j <= LastReset
    BY <1>2, <1>3, <1>5
  <2> QED BY <1>1, <2>1
<1> QED BY <1>4, <1>5

LEMMA FramesTyped ==
    ASSUME PipeOK
    PROVE  /\ FramesRead \in Nat
           /\ IsFiniteSet({i \in SinceReset : Lines[i] = "frame"})
           /\ FramesRead = 0 <=> \A i \in SinceReset : Lines[i] # "frame"
<1>1. LastReset \in Nat /\ Len(Lines) \in Nat
  BY ResetTyped, LinesTyped
<1>2. IsFiniteSet(SinceReset)
  BY <1>1, FS_Interval DEF SinceReset
<1>3. IsFiniteSet({i \in SinceReset : Lines[i] = "frame"})
  BY <1>2, FS_Subset
<1>4. FramesRead = 0 <=> {i \in SinceReset : Lines[i] = "frame"} = {}
  BY <1>3, FS_EmptySet DEF FramesRead
<1> QED BY <1>3, <1>4, FS_CardinalityType DEF FramesRead

\* What an event more makes of the lines' frames and boundaries.
LEMMA AppendToLines ==
    ASSUME PipeOK, ~Cut, NEW e \in GameEvents, pipe' = Append(pipe, e)
    PROVE  /\ PipeOK' /\ ~Cut' /\ ToSet(pipe') = ToSet(pipe) \cup {e}
           /\ IF e \in Resets THEN LastReset' # 0 /\ FramesRead' = 0 /\ ~OldFirst'
              ELSE /\ LastReset' = LastReset
                   /\ FramesRead' = IF e = "frame" THEN FramesRead + 1 ELSE FramesRead
                   /\ OldFirst' <=> OldFirst \/ (e = "pulse" /\ FramesRead = 0)
<1>1. pipe \in Seq(GameEvents \cup {"cut"}) /\ e \in GameEvents \cup {"cut"} /\ e # "cut"
  BY WorkloadAssumption DEF PipeOK
<1>2. /\ pipe' \in Seq(GameEvents \cup {"cut"}) /\ Len(pipe') = Len(pipe) + 1
      /\ \A i \in 1..Len(pipe) : pipe'[i] = pipe[i]
      /\ pipe'[Len(pipe) + 1] = e /\ ToSet(pipe') = ToSet(pipe) \cup {e}
  BY <1>1, AppendToPipe
<1>3. Lines = pipe /\ Lines' = pipe' /\ ~Cut'
  BY <1>1, <1>2 DEF Lines, Cut
<1>4. Len(pipe) \in Nat
  BY <1>1, PipeTyped
<1>5. PipeOK'
  <2>1. \A i \in 1..Len(pipe') : pipe'[i] # "cut"
    <3>1. \A i \in 1..Len(pipe) : pipe[i] # "cut"
      BY <1>1, PipeTyped DEF Cut
    <3> QED BY <1>1, <1>2, <1>4, <3>1
  <2> QED BY <1>2, <2>1 DEF PipeOK, CutIsLast
<1>6. /\ LastReset \in 0..Len(pipe)
      /\ LastReset # 0 => pipe[LastReset] \in Resets
      /\ \A i \in 1..Len(pipe) : pipe[i] \in Resets => i <= LastReset
  BY <1>3, ResetTyped
<1>7. /\ LastReset' \in 0..Len(pipe) + 1
      /\ LastReset' # 0 => pipe'[LastReset'] \in Resets
      /\ \A i \in 1..Len(pipe) + 1 : pipe'[i] \in Resets => i <= LastReset'
  <2>1. /\ LastReset' \in 0..Len(pipe')
        /\ LastReset' # 0 => pipe'[LastReset'] \in Resets
        /\ \A i \in 1..Len(pipe') : pipe'[i] \in Resets => i <= LastReset'
    <3>1. (PipeOK =>
            /\ LastReset \in 0..Len(Lines)
            /\ LastReset # 0 => Lines[LastReset] \in Resets
            /\ \A i \in 1..Len(Lines) : Lines[i] \in Resets => i <= LastReset)'
      BY ResetTyped, PTL
    <3> QED BY <1>3, <1>5, <3>1
  <2> QED BY <1>2, <2>1
<1> DEFINE was == {i \in LastReset + 1 .. Len(pipe) : pipe[i] = "frame"}
           now == {i \in LastReset' + 1 .. Len(pipe) + 1 : pipe'[i] = "frame"}
<1>8. FramesRead = Cardinality(was) /\ FramesRead' = Cardinality(now)
  BY <1>2, <1>3 DEF FramesRead, SinceReset
<1>o. /\ OldFirst <=> \E i \in LastReset + 1 .. Len(pipe) :
           pipe[i] = "pulse" /\ \A j \in LastReset + 1 .. Len(pipe) : pipe[j] = "frame" => i < j
      /\ OldFirst' <=> \E i \in LastReset' + 1 .. Len(pipe) + 1 :
           /\ pipe'[i] = "pulse"
           /\ \A j \in LastReset' + 1 .. Len(pipe) + 1 : pipe'[j] = "frame" => i < j
  <2>1. /\ SinceReset = LastReset + 1 .. Len(pipe)
        /\ SinceReset' = LastReset' + 1 .. Len(pipe) + 1
    BY <1>2, <1>3 DEF SinceReset
  <2>2. /\ OldFirst <=> \E i \in SinceReset :
             pipe[i] = "pulse" /\ \A j \in SinceReset : pipe[j] = "frame" => i < j
        /\ OldFirst' <=> \E i \in SinceReset' :
             pipe'[i] = "pulse" /\ \A j \in SinceReset' : pipe'[j] = "frame" => i < j
    BY <1>3, Zenon DEF OldFirst
  <2> QED BY <2>1, <2>2, Zenon
<1>9. CASE e \in Resets
  <2>1. LastReset' = Len(pipe) + 1
    BY <1>2, <1>4, <1>7, <1>9
  <2>2. now = {} /\ ~OldFirst'
    BY <1>4, <1>o, <2>1
  <2>3. FramesRead' = 0
    BY <1>8, <2>2, FS_EmptySet
  <2>4. LastReset' # 0
    BY <1>4, <2>1
  <2> QED BY <1>2, <1>3, <1>5, <1>9, <2>2, <2>3, <2>4
<1>10. CASE e \notin Resets
  <2>1. LastReset' # Len(pipe) + 1
    BY <1>2, <1>4, <1>7, <1>10
  <2>2. LastReset' \in 0..Len(pipe)
    BY <1>4, <1>7, <2>1
  <2>3. LastReset' # 0 => pipe[LastReset'] \in Resets
    BY <1>2, <1>4, <1>7, <2>2
  <2>4. LastReset' <= LastReset
    BY <1>4, <1>6, <2>2, <2>3
  <2>5. LastReset # 0 => pipe'[LastReset] \in Resets /\ LastReset \in 1..Len(pipe) + 1
    BY <1>2, <1>4, <1>6
  <2>6. LastReset <= LastReset'
    BY <1>4, <1>6, <1>7, <2>5
  <2>7. LastReset' = LastReset
    BY <1>4, <1>6, <2>2, <2>4, <2>6
  <2>8. IsFiniteSet(was) /\ Len(pipe) + 1 \notin was
    BY <1>3, <1>4, FramesTyped DEF SinceReset
  <2>9. now = IF e = "frame" THEN was \cup {Len(pipe) + 1} ELSE was
    <3>1. \A i : i \in LastReset + 1 .. Len(pipe) + 1 <=>
                  i \in LastReset + 1 .. Len(pipe) \/ i = Len(pipe) + 1
      BY <1>4, <1>6
    <3>2. \A i \in LastReset + 1 .. Len(pipe) : pipe'[i] = pipe[i]
      BY <1>2, <1>4, <1>6
    <3> QED BY <1>2, <2>7, <3>1, <3>2
  <2>10. FramesRead' = IF e = "frame" THEN FramesRead + 1 ELSE FramesRead
    <3> HIDE DEF was, now
    <3> QED BY <1>8, <2>8, <2>9, FS_AddElement
  <2>11. FramesRead = 0 <=> \A i \in LastReset + 1 .. Len(pipe) : pipe[i] # "frame"
    BY <1>3, FramesTyped DEF SinceReset
  <2>12. OldFirst' <=> OldFirst \/ (e = "pulse" /\ FramesRead = 0)
    <3> DEFINE I == LastReset + 1 .. Len(pipe)
               J == LastReset + 1 .. Len(pipe) + 1
               n == Len(pipe) + 1
    <3>1. J = I \cup {n} /\ n \notin I /\ \A i \in I : i < n
      BY <1>4, <1>6
    <3>2. \A i \in I : pipe'[i] = pipe[i]
      BY <1>2, <1>4, <1>6
    <3>3. pipe'[n] = e
      BY <1>2
    <3>4. OldFirst <=> \E i \in I : pipe[i] = "pulse" /\ \A j \in I : pipe[j] = "frame" => i < j
      BY <1>o
    <3>5. OldFirst' <=> \E i \in J : pipe'[i] = "pulse" /\ \A j \in J : pipe'[j] = "frame" => i < j
      BY <1>o, <2>7
    <3>6. FramesRead = 0 <=> \A i \in I : pipe[i] # "frame"
      BY <2>11
    <3>7. \A i \in I : ~(n < i)
      BY <1>4, <1>6
    <3> HIDE DEF I, J, n
    <3>8. ASSUME OldFirst PROVE OldFirst'
      <4>1. PICK i \in I : pipe[i] = "pulse" /\ \A j \in I : pipe[j] = "frame" => i < j
        BY <3>4, <3>8
      <4>2. i \in J /\ pipe'[i] = "pulse" /\ \A j \in J : pipe'[j] = "frame" => i < j
        BY <3>1, <3>2, <4>1
      <4> QED BY <3>5, <4>2
    <3>9. ASSUME e = "pulse", FramesRead = 0 PROVE OldFirst'
      <4>1. n \in J /\ pipe'[n] = "pulse" /\ \A j \in I : pipe'[j] # "frame"
        BY <3>1, <3>2, <3>3, <3>6, <3>9
      <4>2. \A j \in J : pipe'[j] # "frame"
        BY <3>1, <4>1
      <4> QED BY <3>5, <4>1, <4>2
    <3>10. ASSUME OldFirst', ~OldFirst PROVE e = "pulse" /\ FramesRead = 0
      <4>1. PICK i \in J : pipe'[i] = "pulse" /\ \A j \in J : pipe'[j] = "frame" => i < j
        BY <3>5, <3>10
      <4>2. i \notin I
        BY <3>1, <3>2, <3>4, <3>10, <4>1
      <4> QED BY <3>1, <3>2, <3>3, <3>6, <3>7, <4>1, <4>2
    <3> QED BY <3>8, <3>9, <3>10
  <2> QED BY <1>2, <1>3, <1>5, <1>10, <2>7, <2>10, <2>12
<1> QED BY <1>9, <1>10

\* Half a line at the end leaves the lines what they were.
LEMMA CutToLines ==
    ASSUME PipeOK, ~Cut, pipe' = Append(pipe, "cut")
    PROVE  /\ PipeOK' /\ Cut' /\ ToSet(pipe') = ToSet(pipe) \cup {"cut"}
           /\ Lines' = Lines /\ LastReset' = LastReset /\ FramesRead' = FramesRead
           /\ OldFirst' = OldFirst
<1>1. pipe \in Seq(GameEvents \cup {"cut"})
  BY DEF PipeOK
<1>2. /\ pipe' \in Seq(GameEvents \cup {"cut"}) /\ Len(pipe') = Len(pipe) + 1
      /\ \A i \in 1..Len(pipe) : pipe'[i] = pipe[i]
      /\ ToSet(pipe') = ToSet(pipe) \cup {"cut"}
  BY <1>1, AppendToPipe
<1>3. Len(pipe) \in Nat /\ \A i \in 1..Len(pipe) : pipe[i] # "cut"
  BY <1>1, PipeTyped DEF Cut
<1>4. PipeOK' /\ Cut'
  BY <1>2, <1>3 DEF PipeOK, CutIsLast, Cut
<1>5. Lines' = SubSeq(pipe', 1, Len(pipe)) /\ Lines = pipe
  BY <1>2, <1>3, <1>4 DEF Lines, Front
<1>6. Lines' = Lines
  <2>1. \A i \in 1..Len(pipe) : pipe'[i] \in GameEvents \cup {"cut"}
    BY <1>1, <1>2, ElementOfSeq
  <2>2. /\ Lines' \in Seq(GameEvents \cup {"cut"})
        /\ Len(Lines') = IF 1 <= Len(pipe) THEN Len(pipe) - 1 + 1 ELSE 0
        /\ \A i \in 1..Len(pipe) - 1 + 1 : Lines'[i] = pipe'[1 + i - 1]
    BY <1>3, <1>5, <2>1, SubSeqProperties
  <2>3. Len(Lines') = Len(pipe)
    BY <1>3, <2>2
  <2>4. \A i \in 1..Len(pipe) : Lines'[i] = pipe[i]
    BY <1>2, <1>3, <2>2
  <2> QED BY <1>1, <1>5, <2>2, <2>3, <2>4, SeqEqual
<1>7. LastReset' = LastReset
  <2>1. (PipeOK =>
          /\ LastReset \in 0..Len(Lines)
          /\ LastReset # 0 => Lines[LastReset] \in Resets
          /\ \A i \in 1..Len(Lines) : Lines[i] \in Resets => i <= LastReset)'
    BY ResetTyped, PTL
  <2>2. /\ LastReset' \in 0..Len(pipe)
        /\ LastReset' # 0 => pipe[LastReset'] \in Resets
        /\ \A i \in 1..Len(pipe) : pipe[i] \in Resets => i <= LastReset'
    BY <1>4, <1>5, <1>6, <2>1
  <2>3. /\ LastReset \in 0..Len(pipe)
        /\ LastReset # 0 => pipe[LastReset] \in Resets
        /\ \A i \in 1..Len(pipe) : pipe[i] \in Resets => i <= LastReset
    BY <1>5, ResetTyped
  <2> QED BY <1>3, <2>2, <2>3
<1>8. FramesRead' = FramesRead /\ OldFirst' = OldFirst
  BY <1>6, <1>7, Zenon DEF FramesRead, OldFirst, SinceReset
<1> QED BY <1>2, <1>4, <1>5, <1>6, <1>7, <1>8

\* What a pass leaves in the pipe.
LEMMA ReadLines ==
    ASSUME PipeOK, pipe' = IF Cut THEN <<"cut">> ELSE <<>>
    PROVE  /\ PipeOK' /\ Cut' = Cut /\ ToSet(pipe') = IF Cut THEN {"cut"} ELSE {}
           /\ LastReset' = 0 /\ FramesRead' = 0 /\ ~OldFirst'
<1>1. pipe' \in Seq(GameEvents \cup {"cut"}) /\ ToSet(pipe') = IF Cut THEN {"cut"} ELSE {}
  <2>1. ToSet(<<>>) = {} /\ ToSet(<<"cut">>) = {"cut"}
    BY DEF ToSet
  <2>2. <<>> \in Seq(GameEvents \cup {"cut"}) /\ <<"cut">> \in Seq(GameEvents \cup {"cut"})
    OBVIOUS
  <2> QED BY <2>1, <2>2, Zenon
<1>2. CutIsLast' /\ Cut' = Cut
  BY <1>1 DEF CutIsLast, Cut
<1>3. Lines' = <<>>
  <2>1. CASE Cut
    <3>1. Lines' = SubSeq(<<"cut">>, 1, 0)
      BY <1>2, <2>1 DEF Lines, Front
    <3> QED BY <3>1
  <2>2. CASE ~Cut
    BY <1>2, <2>2 DEF Lines
  <2> QED BY <2>1, <2>2
<1>4. LastReset' = 0
  BY <1>3 DEF LastReset
<1>5. FramesRead' = 0 /\ ~OldFirst'
  BY <1>3, <1>4, FS_EmptySet DEF FramesRead, OldFirst, SinceReset
<1> QED BY <1>1, <1>2, <1>4, <1>5 DEF PipeOK

-----------------------------------------------------------------------------
(* Types. *)

\* Half a line is left by a benchmark that crashed, and nothing is left after the rest.
Pipes ==
    /\ CutIsLast
    /\ Cut => game \in {"dying", "crashed", "killed", "stuck"}
    /\ ~InLoop /\ pc # "rest" => pipe = <<>>

\* The benchmark is dead outside the loop, CUDA before a run and after it.
Ends ==
    /\ ~InLoop => game \notin Running
    /\ InLoop => game \notin {"off", "killed", "stuck"}
    /\ pc \in {"launch", "session", "ended"} => cuda \notin Working

Typed == TypeOK /\ Pipes /\ Ends

LEMMA TypedPipe == Typed => PipeOK
BY DEF Typed, TypeOK, Pipes, PipeOK

LEMMA EmptyPipe ==
    ASSUME pipe' = <<>>
    PROVE  PipeOK' /\ ~Cut' /\ ToSet(pipe') = {}
BY DEF PipeOK, CutIsLast, Cut, ToSet

\* An event of the benchmark, without the case distinctions.
LEMMA SaysEffect ==
    ASSUME Typed, NEW e \in GameEvents, GameSays(e)
    PROVE  /\ UNCHANGED <<pc, end_vars, frozen, spoke, measured, seen_vars, cuda_vars, stop>>
           /\ pipe' = Append(pipe, e) /\ ~Cut
           /\ \/ e = "start" /\ game = "loading" /\ game' = "startup"
              \/ e = "measure" /\ game = "startup" /\ game' = "measure"
              \/ /\ e \in {"good", "short", "bad"} /\ game = "measure" /\ game' = "done"
                 /\ e = "good" => measured >= Target
              \/ /\ e \notin {"start", "measure", "good", "short", "bad"}
                 /\ game \in {"startup", "measure"} /\ game' = game
           /\ truth' \in Truths
           /\ truth'.fault = (truth.fault \/ e \in {"short", "bad", "fatal", "junk"})
           /\ truth'.quiet = IF e \in Resets \cup {"frame"} THEN 0 ELSE truth.quiet
           /\ truth'.frames = IF e \in Resets THEN 0
                             ELSE IF e = "frame" THEN Least(truth.frames + 1, 2)
                             ELSE IF e = "pulse" /\ truth.frames = 0 THEN 1
                             ELSE truth.frames
           /\ truth'.crash = truth.crash /\ truth'.lows = truth.lows
           /\ truth'.spent = truth.spent /\ truth'.combined = truth.combined
           /\ truth'.hung = truth.hung /\ truth'.hungBefore = truth.hungBefore
<1>1. /\ UNCHANGED <<pc, end_vars, frozen, spoke, measured, seen_vars, cuda_vars, stop>>
      /\ pipe' = Append(pipe, e) /\ game \in {"loading", "startup", "measure"}
  BY DEF GameSays
<1>2. ~Cut
  BY <1>1 DEF Typed, Pipes
<1>3. CASE e = "start"
  BY <1>1, <1>2, <1>3 DEF GameSays, Resets, Typed, TypeOK, Truths
<1> DEFINE T == truth
<1>t. /\ T \in Truths /\ T.fault \in BOOLEAN /\ T.quiet \in 0..Hang /\ T.frames \in 0..2
      /\ 0 \in 0..Hang /\ 0 \in 0..2
  BY WorkloadAssumption DEF Typed, TypeOK, Truths
<1>4. CASE e = "frame"
  <2>1. truth' = [T EXCEPT !.quiet = 0, !.frames = Least(@ + 1, 2)]
    BY <1>4 DEF GameSays, Resets
  <2>2. game \in {"startup", "measure"} /\ game' = game
    BY <1>4 DEF GameSays
  <2>3. Least(T.frames + 1, 2) \in 0..2
    BY <1>t DEF Least
  <2> HIDE DEF T
  <2>4. truth' \in Truths
    BY <1>t, <2>1, <2>3 DEF Truths
  <2> QED BY <1>1, <1>2, <1>t, <1>4, <2>1, <2>2, <2>4 DEF Resets, Truths, T
<1>5. CASE e \in Resets
  <2>1. truth' = [T EXCEPT !.quiet = 0, !.frames = 0, !.fault = @ \/ e \in {"short", "bad"}]
    BY <1>5 DEF GameSays, Resets
  <2>2. \/ e = "measure" /\ game = "startup" /\ game' = "measure"
        \/ /\ e \in {"good", "short", "bad"} /\ game = "measure" /\ game' = "done"
           /\ e = "good" => measured >= Target
        \/ e = "mark" /\ game \in {"startup", "measure"} /\ game' = game
    BY <1>5 DEF GameSays, Resets
  <2> HIDE DEF T
  <2>3. truth' \in Truths
    BY <1>t, <2>1 DEF Truths
  <2> QED BY <1>1, <1>2, <1>t, <1>5, <2>1, <2>2, <2>3 DEF Resets, Truths, T
<1>6. CASE e \in {"fatal", "junk"}
  <2>1. truth' = [T EXCEPT !.fault = TRUE]
    BY <1>6 DEF GameSays, Resets
  <2>2. game \in {"startup", "measure"} /\ game' = game
    BY <1>6 DEF GameSays
  <2> HIDE DEF T
  <2>3. truth' \in Truths
    BY <1>t, <2>1 DEF Truths
  <2> QED BY <1>1, <1>2, <1>t, <1>6, <2>1, <2>2, <2>3 DEF Resets, Truths, T
<1>8. CASE e = "pulse"
  <2> DEFINE f == IF T.frames = 0 THEN 1 ELSE T.frames
  <2>1. truth' = [T EXCEPT !.frames = f]
    BY <1>8 DEF GameSays, Resets
  <2>2. game \in {"startup", "measure"} /\ game' = game
    BY <1>8 DEF GameSays
  <2>3. f \in 0..2
    BY <1>t
  <2> HIDE DEF T
  <2>4. truth' \in Truths
    BY <1>t, <2>1, <2>3 DEF Truths
  <2> QED BY <1>1, <1>2, <1>t, <1>8, <2>1, <2>2, <2>4 DEF Resets, Truths, T
<1>7. e \in {"start", "frame", "pulse", "fatal", "junk"} \cup Resets
  BY WorkloadAssumption DEF Resets
<1> QED BY <1>3, <1>4, <1>5, <1>6, <1>7, <1>8

LEMMA InitTyped == Init => Typed
<1> HAVE Init
<1>1. TypeOK
  <2>1. pipe = <<>> /\ truth = Untouched /\ {FALSE} \subseteq BOOLEAN
    BY DEF Init
  <2>2. Untouched \in Truths
    <3>1. 0 \in 0..Hang /\ 0 \in 0..2 /\ 0 \in 0..Streak /\ 0 \in 0..Limit
      BY WorkloadAssumption
    <3> QED BY <3>1 DEF Untouched, Truths
  <2>3. /\ 0 \in 0..Target /\ 0 \in 0..Hang /\ 0 \in 0..Limit /\ 0 \in 0..MinSamples
        /\ 0 \in 0..Streak /\ 0 \in 0..2 /\ 1 \in 1..2 /\ <<>> \in Seq(GameEvents \cup {"cut"})
    BY WorkloadAssumption
  <2>4. {frozen, spoke, routed, stalled, cried, stop} \subseteq BOOLEAN
    BY DEF Init
  <2>5. truth \in Truths /\ pipe \in Seq(GameEvents \cup {"cut"})
    BY <2>1, <2>2, <2>3
  <2>6. /\ pc = "launch" /\ mode \in Modes /\ attempt = 1 /\ why = "none" /\ game = "off"
        /\ recorded = FALSE /\ measured = 0 /\ heard = {} /\ advances = 0 /\ still = 0
        /\ age = 0 /\ samples = 0 /\ low = 0 /\ cuda = "off"
    BY DEF Init
  <2>7. /\ pc \in {"launch", "drain", "judge", "rest", "reap", "serial", "session", "ended"}
        /\ why \in Reasons /\ cuda \in Working \cup Broken \cup {"off", "exit0"}
        /\ game \in Running \cup {"off", "exited", "failed", "unlinked", "crashed", "killed", "stuck"}
    BY <2>6 DEF Reasons, Working, Broken, Running
  <2>8. /\ attempt \in 1..2 /\ recorded \in BOOLEAN /\ heard \subseteq GameEvents \cup {"junk"}
        /\ measured \in 0..Target /\ advances \in 0..2 /\ still \in 0..Hang /\ age \in 0..Limit
        /\ samples \in 0..MinSamples /\ low \in 0..Streak
    BY <2>3, <2>6, Zenon
  <2> QED BY <2>4, <2>5, <2>6, <2>7, <2>8 DEF TypeOK
<1>2. Pipes /\ Ends
  BY DEF Init, Pipes, Ends, CutIsLast, Cut, ToSet, InLoop, Running, Working
<1> QED BY <1>1, <1>2 DEF Typed

LEMMA SaysTyped ==
    ASSUME Typed, NEW e \in GameEvents, GameSays(e)
    PROVE  Typed'
<1>1. PipeOK' /\ ~Cut'
  BY SaysEffect, TypedPipe, AppendToLines
<1>2. game \in {"loading", "startup", "measure"} /\ game' \in {"startup", "measure", "done"}
  BY SaysEffect
<1>3. TypeOK'
  BY <1>1, <1>2, SaysEffect DEF Typed, TypeOK, Running, PipeOK, end_vars, seen_vars, cuda_vars
<1>4. Pipes'
  <2>1. pc' = pc /\ InLoop
    BY <1>2, SaysEffect DEF Typed, Ends, Running
  <2> QED BY <1>1, <2>1 DEF Pipes, PipeOK, InLoop
<1>5. Ends'
  BY <1>2, SaysEffect DEF Typed, Ends, InLoop, Running, cuda_vars
<1> QED BY <1>3, <1>4, <1>5 DEF Typed

LEMMA Zeroes ==
    /\ 0 \in 0..Target /\ 0 \in 0..Hang /\ 0 \in 0..Limit /\ 0 \in 0..MinSamples
    /\ 0 \in 0..Streak /\ 0 \in 0..2
BY WorkloadAssumption

LEMMA LeastTyped ==
    ASSUME NEW a \in Nat, NEW b \in Nat
    PROVE  Least(a, b) \in 0..b /\ Least(a, b) <= a
BY DEF Least

LEMMA TruthTyped ==
    ASSUME Typed
    PROVE  /\ truth \in Truths
           /\ truth.fault \in BOOLEAN /\ truth.crash \in BOOLEAN /\ truth.hung \in BOOLEAN
           /\ truth.hungBefore \in BOOLEAN /\ truth.combined \in BOOLEAN
           /\ truth.quiet \in 0..Hang /\ truth.frames \in 0..2 /\ truth.lows \in 0..Streak
           /\ truth.spent \in 0..Limit
BY DEF Typed, TypeOK, Truths

\* What the actions of the two programs do to the truth.
SameTruth ==
    /\ truth' \in Truths
    /\ truth'.quiet = truth.quiet /\ truth'.frames = truth.frames /\ truth'.lows = truth.lows
    /\ truth'.spent = truth.spent /\ truth'.combined = truth.combined
    /\ truth'.hung = truth.hung /\ truth'.hungBefore = truth.hungBefore

LEMMA PrintsEffect ==
    ASSUME Typed, GamePrints
    PROVE  SameTruth /\ truth'.fault = TRUE /\ truth'.crash = truth.crash
<1>1. truth' = [truth EXCEPT !.fault = TRUE]
  BY DEF GamePrints
<1> QED BY <1>1, TruthTyped DEF SameTruth, Truths

LEMMA EndsEffect ==
    ASSUME Typed, GameEnds
    PROVE  /\ SameTruth
           /\ truth'.fault = (truth.fault \/ game' \in {"failed", "dying", "crashed"})
           /\ truth'.crash = (truth.crash \/ game' = "dying")
<1> DEFINE b == game' \in {"failed", "dying", "crashed"}
           c == game' = "dying"
<1>1. truth' = [truth EXCEPT !.fault = @ \/ b, !.crash = @ \/ c]
  BY DEF GameEnds
<1>2. b \in BOOLEAN /\ c \in BOOLEAN /\ truth \in Truths
  BY TruthTyped
<1> HIDE DEF b, c
<1>3. SameTruth /\ truth'.fault = (truth.fault \/ b) /\ truth'.crash = (truth.crash \/ c)
  BY <1>1, <1>2, TruthTyped DEF SameTruth, Truths
<1> QED BY <1>3 DEF b, c

LEMMA CudaEffect ==
    ASSUME Typed, CudaSteps
    PROVE  /\ SameTruth /\ truth'.crash = truth.crash
           /\ truth'.fault = (truth.fault \/ cuda' \in {"exit1", "tearbad"})
<1> DEFINE b == cuda' \in {"exit1", "tearbad"}
<1>1. truth' = [truth EXCEPT !.fault = @ \/ b]
  BY DEF CudaSteps
<1>2. b \in BOOLEAN
  OBVIOUS
<1> HIDE DEF b
<1>3. SameTruth /\ truth'.crash = truth.crash /\ truth'.fault = (truth.fault \/ b)
  BY <1>1, <1>2, TruthTyped DEF SameTruth, Truths
<1> QED BY <1>3 DEF b

LEMMA StallEffect ==
    ASSUME Typed, CudaStalls
    PROVE  SameTruth /\ truth'.fault = TRUE /\ truth'.crash = truth.crash
<1>1. truth' = [truth EXCEPT !.fault = TRUE]
  BY DEF CudaStalls
<1> QED BY <1>1, TruthTyped DEF SameTruth, Truths

LEMMA FreezesTyped == ASSUME Typed, GameFreezes PROVE Typed'
<1>1. TypeOK'
  BY DEF Typed, TypeOK, GameFreezes, end_vars, seen_vars, cuda_vars
<1>2. Pipes' /\ Ends'
  BY DEF Typed, Pipes, Ends, InLoop, CutIsLast, Cut, GameFreezes, cuda_vars
<1> QED BY <1>1, <1>2 DEF Typed

LEMMA PrintsTyped == ASSUME Typed, GamePrints PROVE Typed'
<1>1. TypeOK'
  BY PrintsEffect DEF SameTruth, Typed, TypeOK, GamePrints, end_vars, seen_vars, cuda_vars
<1>2. Pipes' /\ Ends'
  BY DEF Typed, Pipes, Ends, InLoop, CutIsLast, Cut, GamePrints, cuda_vars
<1> QED BY <1>1, <1>2 DEF Typed

\* The benchmark's end as it shows in the pipe.
LEMMA EndsPipe ==
    ASSUME Typed, GameEnds
    PROVE  /\ PipeOK' /\ LastReset' = LastReset /\ FramesRead' = FramesRead
           /\ OldFirst' = OldFirst
           /\ \/ pipe' = pipe /\ Cut' = Cut /\ ToSet(pipe') = ToSet(pipe)
              \/ /\ game \in {"startup", "measure", "done"} /\ game' = "dying"
                 /\ Cut' /\ ToSet(pipe') = ToSet(pipe) \cup {"cut"}
<1>1. PipeOK
  BY TypedPipe
<1>2. CASE pipe' = pipe
  BY <1>1, <1>2 DEF PipeOK, CutIsLast, Cut, LastReset, FramesRead, OldFirst, SinceReset, Lines
<1>3. CASE pipe' # pipe
  <2>1. /\ game \in {"startup", "measure", "done"} /\ game' = "dying"
        /\ pipe' = Append(pipe, "cut")
    BY <1>3 DEF GameEnds
  <2>2. ~Cut
    BY <2>1 DEF Typed, Pipes
  <2> QED BY <1>1, <2>1, <2>2, CutToLines
<1> QED BY <1>2, <1>3

LEMMA GameEndsTyped == ASSUME Typed, GameEnds PROVE Typed'
<1>1. /\ game \in {"loading", "startup", "measure", "done", "dying"}
      /\ game' \in {"exited", "failed", "unlinked", "dying", "crashed"}
      /\ game' = "crashed" => game = "dying"
      /\ game' \notin {"dying", "crashed"} => game \in {"loading", "done"} /\ pipe' = pipe
  BY DEF GameEnds
<1>2. /\ UNCHANGED <<pc, end_vars, frozen, spoke, measured, seen_vars, cuda_vars, stop>>
  BY DEF GameEnds
<1>3. InLoop
  BY <1>1 DEF Typed, Ends, Running
<1>4. TypeOK'
  BY <1>1, <1>2, EndsEffect, EndsPipe
     DEF SameTruth, Typed, TypeOK, PipeOK, Running, end_vars, seen_vars, cuda_vars
<1>5. Pipes' /\ Ends'
  <2>1. Ends'
    BY <1>1, <1>2, <1>3 DEF Ends, Typed, InLoop, cuda_vars
  <2>2. Pipes'
    BY <1>1, <1>2, <1>3, EndsPipe DEF Pipes, Typed, InLoop, PipeOK
  <2> QED BY <2>1, <2>2
<1> QED BY <1>4, <1>5 DEF Typed

LEMMA CudaTyped == ASSUME Typed, Cuda PROVE Typed'
<1>1. /\ UNCHANGED <<pc, end_vars, game_vars, seen_vars, stop>> /\ truth' \in Truths
      /\ cuda \in Working /\ cuda' \in Working \cup {"exit0", "exit1", "exit3", "exit4"}
      /\ cried' \in BOOLEAN /\ stalled' \in BOOLEAN
  <2>1. CASE CudaSteps
    BY <2>1, CudaEffect DEF SameTruth, CudaSteps, CudaSetsUp, CudaChecks, CudaLoads, CudaReleases,
       Working, Typed, TypeOK
  <2>2. CASE CudaStalls
    BY <2>2, StallEffect DEF SameTruth, CudaStalls, Typed, TypeOK
  <2>3. CASE CudaWatchdog
    BY <2>3, TruthTyped DEF CudaWatchdog, Guarded, Working, Typed, TypeOK
  <2> QED BY <2>1, <2>2, <2>3 DEF Cuda
<1>2. TypeOK'
  BY <1>1 DEF Typed, TypeOK, Broken, end_vars, game_vars, seen_vars
<1>3. Pipes'
  BY <1>1 DEF Typed, Pipes, InLoop, CutIsLast, Cut, game_vars
<1>4. Ends'
  BY <1>1 DEF Typed, Ends, InLoop, game_vars
<1> QED BY <1>2, <1>3, <1>4 DEF Typed

LEMMA UserTyped == ASSUME Typed, UserStops PROVE Typed'
<1>1. TypeOK'
  BY DEF Typed, TypeOK, UserStops, end_vars, game_vars, seen_vars, cuda_vars
<1>2. Pipes' /\ Ends'
  BY DEF Typed, Pipes, Ends, InLoop, CutIsLast, Cut, UserStops, game_vars, cuda_vars
<1> QED BY <1>1, <1>2 DEF Typed

\* A run begins.
LEMMA LaunchEffect ==
    ASSUME Typed, Launch
    PROVE  /\ truth' \in Truths /\ truth'.hungBefore = truth.hung
           /\ truth'.fault = FALSE /\ truth'.crash = FALSE /\ truth'.hung = FALSE
           /\ truth'.combined = FALSE /\ truth'.quiet = 0 /\ truth'.frames = 0
           /\ truth'.lows = 0 /\ truth'.spent = 0
<1>1. truth' = [Untouched EXCEPT !.hungBefore = truth.hung]
  BY DEF Launch
<1>2. truth.hung \in BOOLEAN
  BY TruthTyped
<1>3. /\ Untouched \in Truths /\ Untouched.fault = FALSE /\ Untouched.crash = FALSE
      /\ Untouched.hung = FALSE /\ Untouched.combined = FALSE /\ Untouched.quiet = 0
      /\ Untouched.frames = 0 /\ Untouched.lows = 0 /\ Untouched.spent = 0
  BY Zeroes DEF Untouched, Truths
<1> QED BY <1>1, <1>2, <1>3 DEF Truths

LEMMA LaunchTyped == ASSUME Typed, Launch PROVE Typed'
<1>1. /\ pc' = "drain" /\ game' = "loading" /\ frozen' = FALSE /\ pipe' = <<>> /\ spoke' = FALSE
      /\ measured' = 0 /\ heard' = {} /\ advances' = 0 /\ still' = 0 /\ age' = 0
      /\ samples' = 0 /\ routed' = FALSE /\ low' = 0 /\ cuda' = "off" /\ stalled' = FALSE
      /\ cried' = FALSE /\ stop' = stop /\ UNCHANGED end_vars
  BY DEF Launch
<1>2. TypeOK'
  <2>1. PipeOK'
    BY <1>1, EmptyPipe
  <2>2. {frozen, spoke, routed, stalled, cried, stop}' \subseteq BOOLEAN
    BY <1>1 DEF Typed, TypeOK
  <2>3. /\ measured' \in 0..Target /\ advances' \in 0..2 /\ still' \in 0..Hang
        /\ age' \in 0..Limit /\ samples' \in 0..MinSamples /\ low' \in 0..Streak
    BY <1>1, Zeroes, Zenon
  <2>4. /\ mode' \in Modes /\ attempt' \in 1..2 /\ why' \in Reasons /\ recorded' \in BOOLEAN
    BY <1>1, Zenon DEF Typed, TypeOK, end_vars
  <2> QED BY <1>1, <2>1, <2>2, <2>3, <2>4, LaunchEffect DEF TypeOK, PipeOK, Running
<1>3. Pipes' /\ Ends'
  BY <1>1, EmptyPipe DEF Pipes, Ends, InLoop, PipeOK, Running
<1> QED BY <1>2, <1>3 DEF Typed

\* A pass reads what was written, and half a line stays.
LEMMA DrainEffect ==
    ASSUME Typed, Drain
    PROVE  /\ LET quiet == IF ToSet(pipe) \cap (Resets \cup {"frame"}) # {} THEN 0
                           ELSE Least(truth.quiet + 1, Hang)
              IN  /\ truth'.quiet = quiet
                  /\ truth'.hung = (truth.hung
                        \/ (quiet = Hang /\ truth.frames = 2 /\ game \in Running))
           /\ truth'.spent = IF game \in {"measure", "done"} THEN Least(truth.spent + 1, Limit)
                            ELSE 0
           /\ truth' \in Truths /\ truth'.fault = truth.fault /\ truth'.crash = truth.crash
           /\ truth'.frames = truth.frames /\ truth'.lows = truth.lows
           /\ truth'.combined = truth.combined /\ truth'.hungBefore = truth.hungBefore
<1> DEFINE q == IF ToSet(pipe) \cap (Resets \cup {"frame"}) # {} THEN 0
                ELSE Least(truth.quiet + 1, Hang)
           h == truth.hung \/ (q = Hang /\ truth.frames = 2 /\ game \in Running)
           n == IF game \in {"measure", "done"} THEN Least(truth.spent + 1, Limit) ELSE 0
<1>1. truth' = [truth EXCEPT !.quiet = q, !.hung = h, !.spent = n]
  BY DEF Drain
<1>2. h \in BOOLEAN
  BY TruthTyped
<1>3. q \in 0..Hang /\ n \in 0..Limit
  <2>1. truth.quiet + 1 \in Nat /\ truth.spent + 1 \in Nat /\ Hang \in Nat /\ Limit \in Nat
    BY TruthTyped, WorkloadAssumption
  <2> QED BY <2>1, LeastTyped, Zeroes
<1>4. truth \in Truths
  BY TruthTyped
<1> HIDE DEF h, q, n
<1>5. /\ truth' \in Truths /\ truth'.quiet = q /\ truth'.hung = h /\ truth'.spent = n
      /\ truth'.fault = truth.fault /\ truth'.crash = truth.crash
      /\ truth'.frames = truth.frames /\ truth'.lows = truth.lows
      /\ truth'.combined = truth.combined /\ truth'.hungBefore = truth.hungBefore
  BY <1>1, <1>2, <1>3, <1>4 DEF Truths
<1> QED BY <1>5 DEF h, q, n

LEMMA DrainReads ==
    ASSUME Typed, Drain
    PROVE  /\ ToSet(Lines) = ToSet(pipe) \ {"cut"} /\ ToSet(Lines) \subseteq GameEvents
           /\ heard' = heard \cup (ToSet(pipe) \ {"cut", "frame", "pulse", "mark"})
           /\ PipeOK' /\ Cut' = Cut /\ ToSet(pipe') = IF Cut THEN {"cut"} ELSE {}
           /\ LastReset' = 0 /\ FramesRead' = 0 /\ ~OldFirst'
<1>1. PipeOK
  BY TypedPipe
<1>2. ToSet(Lines) = ToSet(pipe) \ {"cut"} /\ ToSet(Lines) \subseteq GameEvents
  BY <1>1, LinesTyped, PipeTyped DEF PipeOK
<1>3. heard' = heard \cup (ToSet(Lines) \ {"frame", "pulse", "mark"})
  BY DEF Drain, Read
<1>4. pipe' = IF Cut THEN <<"cut">> ELSE <<>>
  BY DEF Drain
<1> QED BY <1>1, <1>2, <1>3, <1>4, ReadLines

\* What the watchdog has counted, and what waits for it in the pipe.
Heartbeats == Base + FramesRead + StaleRead

LEMMA HeartbeatsTyped ==
    ASSUME Typed
    PROVE  /\ FramesRead \in Nat /\ advances \in 0..2 /\ Base \in 0..2 /\ StaleRead \in 0..1
           /\ Heartbeats \in Nat
<1>1. FramesRead \in Nat /\ advances \in 0..2
  BY TypedPipe, FramesTyped DEF Typed, TypeOK
<1>2. Base \in 0..2 /\ StaleRead \in 0..1
  BY <1>1 DEF Base, StaleRead
<1> QED BY <1>1, <1>2 DEF Heartbeats

LEMMA SameHeartbeats ==
    ASSUME UNCHANGED <<advances, LastReset, FramesRead, OldFirst>>
    PROVE  Heartbeats' = Heartbeats
BY DEF Heartbeats, Base, StaleRead

LEMMA DrainTyped == ASSUME Typed, Drain PROVE Typed'
<1>1. /\ pc = "drain" /\ pc' = "judge"
      /\ UNCHANGED <<end_vars, game, frozen, spoke, samples, routed, low, cuda_vars, stop>>
  BY DEF Drain
<1>2. /\ advances' \in 0..2 /\ still' \in 0..Hang /\ age' \in 0..Limit
      /\ measured' \in 0..Target
  <2>1. FramesRead \in Nat /\ advances \in Nat /\ still \in Nat /\ age \in Nat /\ measured \in 0..Target
    BY TypedPipe, FramesTyped DEF Typed, TypeOK
  <2>2. advances' \in 0..2
    <3>1. Heartbeats \in Nat /\ advances' = Least(2, Heartbeats)
      BY HeartbeatsTyped DEF Drain, Heartbeats
    <3> QED BY <3>1 DEF Least
  <2>3. /\ Least(still + 1, Hang) \in 0..Hang /\ Least(age + 1, Limit) \in 0..Limit
        /\ Least(measured + 1, Target) \in 0..Target
    <3>1. /\ still + 1 \in Nat /\ age + 1 \in Nat /\ measured + 1 \in Nat
          /\ Hang \in Nat /\ Limit \in Nat /\ Target \in Nat
      BY <2>1, WorkloadAssumption
    <3> QED BY <3>1, LeastTyped
  <2> QED BY <2>1, <2>2, <2>3, Zeroes, Zenon DEF Drain
<1>3. heard' \subseteq GameEvents \cup {"junk"}
  BY DrainReads DEF Typed, TypeOK
<1>4. TypeOK'
  BY <1>1, <1>2, <1>3, DrainReads, DrainEffect, Zenon
     DEF Typed, TypeOK, PipeOK, end_vars, cuda_vars
<1>5. Pipes' /\ Ends'
  BY <1>1, DrainReads DEF Typed, Pipes, Ends, InLoop, PipeOK, cuda_vars
<1> QED BY <1>4, <1>5 DEF Typed

\* What the end of the loop keeps of the truth.
LEMMA SettledTyped ==
    ASSUME NEW t \in Truths
    PROVE  /\ Settled(t) \in Truths
           /\ Settled(t).fault = t.fault /\ Settled(t).crash = t.crash
           /\ Settled(t).hung = t.hung /\ Settled(t).hungBefore = t.hungBefore
           /\ Settled(t).combined = t.combined
           /\ t.lows = Streak => Settled(t).lows = Streak
           /\ t.spent = Limit => Settled(t).spent = Limit
<1> DEFINE a == IF t.lows = Streak THEN t.lows ELSE 0
           b == IF t.spent = Limit THEN t.spent ELSE 0
<1>1. a \in 0..Streak /\ b \in 0..Limit
  BY Zeroes DEF Truths
<1>2. Settled(t) = [t EXCEPT !.quiet = 0, !.frames = 0, !.lows = a, !.spent = b]
  BY DEF Settled
<1>3. (t.lows = Streak => a = Streak) /\ (t.spent = Limit => b = Limit)
  OBVIOUS
<1> HIDE DEF a, b
<1> QED BY <1>1, <1>2, <1>3, Zeroes DEF Truths

Joined == [truth EXCEPT !.combined = @ \/ (Joins /\ game = "measure")]

LEMMA JoinedTyped ==
    ASSUME Typed
    PROVE  /\ Joined \in Truths /\ Joined.fault = truth.fault /\ Joined.crash = truth.crash
           /\ Joined.hung = truth.hung /\ Joined.hungBefore = truth.hungBefore
           /\ Joined.quiet = truth.quiet /\ Joined.frames = truth.frames
           /\ Joined.lows = truth.lows /\ Joined.spent = truth.spent
           /\ Joined.combined = (truth.combined \/ (Joins /\ game = "measure"))
<1> DEFINE c == truth.combined \/ (Joins /\ game = "measure")
<1>1. c \in BOOLEAN /\ Joined = [truth EXCEPT !.combined = c]
  BY TruthTyped DEF Joined
<1> HIDE DEF c
<1>2. /\ Joined \in Truths /\ Joined.fault = truth.fault /\ Joined.crash = truth.crash
      /\ Joined.hung = truth.hung /\ Joined.hungBefore = truth.hungBefore
      /\ Joined.quiet = truth.quiet /\ Joined.frames = truth.frames
      /\ Joined.lows = truth.lows /\ Joined.spent = truth.spent /\ Joined.combined = c
  BY <1>1, TruthTyped DEF Truths
<1> QED BY <1>2 DEF c

Measuring == Phase(heard) = "measure"
Count == IF Measuring THEN Least(samples + 1, MinSamples) ELSE samples
Lows(r) == IF Measuring /\ r # "busy" THEN Least(truth.lows + 1, Streak) ELSE 0

\* A pass that samples the GPU.
LEMMA SampleTyped ==
    ASSUME Typed, NEW r
    PROVE  LET t == [Joined EXCEPT !.lows = Lows(r)]
           IN  /\ t \in Truths /\ t.fault = truth.fault /\ t.crash = truth.crash
               /\ t.hung = truth.hung /\ t.hungBefore = truth.hungBefore
               /\ t.quiet = truth.quiet /\ t.frames = truth.frames
               /\ t.lows = Lows(r) /\ t.spent = truth.spent
               /\ t.combined = (truth.combined \/ (Joins /\ game = "measure"))
<1>1. Lows(r) \in 0..Streak
  <2>1. truth.lows + 1 \in Nat /\ Streak \in Nat
    BY TruthTyped, WorkloadAssumption
  <2> QED BY <2>1, LeastTyped, Zeroes DEF Lows
<1> QED BY <1>1, JoinedTyped DEF Truths

\* The second half of a pass ends the loop or goes on with it.
Leaves(w) ==
    /\ why' = w /\ pc' = "rest" /\ Forget
    /\ game' \in IF w = "completed" THEN {game} ELSE Killed(game)
Stays == pc' = "drain" /\ UNCHANGED <<why, game, advances, still, age, measured>>

JudgeFrame ==
    /\ pc = "judge" /\ cuda' = CudaNow
    /\ UNCHANGED <<mode, attempt, result, recorded, frozen, pipe, spoke, heard, stalled, cried, stop>>
    /\ truth' \in Truths /\ truth'.fault = truth.fault /\ truth'.crash = truth.crash
    /\ truth'.hung = truth.hung /\ truth'.hungBefore = truth.hungBefore
    /\ truth'.combined = (truth.combined \/ (Joins /\ game = "measure"))

\* It has found something.
JudgeFinds ==
    /\ Found # "none" /\ Leaves(Found) /\ UNCHANGED <<routed, low>>
    /\ truth.spent = Limit => truth'.spent = Limit

\* The sample r shows something.
JudgeAborts(r) ==
    /\ Found = "none" /\ Sampled(r, Count) # "none" /\ Leaves(Sampled(r, Count))
    /\ routed' = (routed \/ (Measuring /\ r # "idle"))
    /\ low' = IF Measuring THEN Least(LowNow(r, Count), Streak) ELSE 0
    /\ Lows(r) = Streak => truth'.lows = Streak

\* Nothing is wrong.
JudgeGoesOn(r) ==
    /\ Found = "none" /\ Sampled(r, Count) = "none" /\ Stays
    /\ samples' = Count
    /\ routed' = (routed \/ (Measuring /\ r # "idle"))
    /\ low' = IF Measuring THEN Least(LowNow(r, Count), Streak) ELSE 0
    /\ truth'.lows = Lows(r) /\ truth'.spent = truth.spent
    /\ truth'.quiet = truth.quiet /\ truth'.frames = truth.frames

LEMMA JudgeEffect ==
    ASSUME Typed, Judge
    PROVE  JudgeFrame /\ (JudgeFinds \/ \E r \in Readings : JudgeAborts(r) \/ JudgeGoesOn(r))
<1>1. /\ pc = "judge" /\ cuda' = CudaNow
      /\ UNCHANGED <<mode, attempt, result, recorded, frozen, pipe, spoke, heard, stalled, cried, stop>>
  BY DEF Judge
<1>2. \/ Found # "none" /\ LeaveLoop(Found) /\ truth' = Settled(Joined) /\ UNCHANGED <<routed, low>>
      \/ \E r \in Readings :
            /\ Found = "none"
            /\ routed' = (routed \/ (Measuring /\ r # "idle"))
            /\ low' = IF Measuring THEN Least(LowNow(r, Count), Streak) ELSE 0
            /\ \/ /\ Sampled(r, Count) # "none" /\ LeaveLoop(Sampled(r, Count))
                  /\ truth' = Settled([Joined EXCEPT !.lows = Lows(r)])
               \/ /\ Sampled(r, Count) = "none" /\ Stays /\ samples' = Count
                  /\ truth' = [Joined EXCEPT !.lows = Lows(r)]
  <2>1. CASE Found # "none"
    BY <2>1 DEF Judge, Joined
  <2>2. CASE Found = "none"
    <3>1. PICK r \in Readings :
            LET n    == Count
                seen == [Joined EXCEPT !.lows = IF Measuring /\ r # "busy"
                                                THEN Least(@ + 1, Streak) ELSE 0]
            IN  /\ routed' = (routed \/ (Measuring /\ r # "idle"))
                /\ low' = IF Measuring THEN Least(LowNow(r, n), Streak) ELSE 0
                /\ \/ Sampled(r, n) # "none" /\ LeaveLoop(Sampled(r, n))
                      /\ truth' = Settled(seen)
                   \/ Sampled(r, n) = "none" /\ pc' = "drain" /\ samples' = n
                      /\ truth' = seen
                      /\ UNCHANGED <<why, game, advances, still, age, measured>>
      BY <2>2, Zenon DEF Judge, Joined, Measuring, Count
    <3>2. [Joined EXCEPT !.lows = IF Measuring /\ r # "busy" THEN Least(@ + 1, Streak) ELSE 0]
             = [Joined EXCEPT !.lows = Lows(r)]
      BY JoinedTyped DEF Lows
    <3> QED BY <2>2, <3>1, <3>2, Zenon DEF Stays
  <2> QED BY <2>1, <2>2
<1>3. ASSUME Found # "none", LeaveLoop(Found), truth' = Settled(Joined), UNCHANGED <<routed, low>>
      PROVE  JudgeFrame /\ JudgeFinds
  <2>1. /\ truth' \in Truths /\ truth'.fault = truth.fault /\ truth'.crash = truth.crash
        /\ truth'.hung = truth.hung /\ truth'.hungBefore = truth.hungBefore
        /\ truth'.combined = (truth.combined \/ (Joins /\ game = "measure"))
        /\ truth.spent = Limit => truth'.spent = Limit
    BY <1>3, JoinedTyped, SettledTyped
  <2> QED BY <1>1, <1>3, <2>1, Zenon DEF JudgeFrame, JudgeFinds, LeaveLoop, Leaves
<1>4. ASSUME NEW r \in Readings, Found = "none",
             routed' = (routed \/ (Measuring /\ r # "idle")),
             low' = IF Measuring THEN Least(LowNow(r, Count), Streak) ELSE 0,
             Sampled(r, Count) # "none", LeaveLoop(Sampled(r, Count)),
             truth' = Settled([Joined EXCEPT !.lows = Lows(r)])
      PROVE  JudgeFrame /\ JudgeAborts(r)
  <2> DEFINE t == [Joined EXCEPT !.lows = Lows(r)]
  <2>1. t \in Truths /\ t.fault = truth.fault /\ t.crash = truth.crash
        /\ t.hung = truth.hung /\ t.hungBefore = truth.hungBefore /\ t.lows = Lows(r)
        /\ t.combined = (truth.combined \/ (Joins /\ game = "measure"))
    BY SampleTyped
  <2>2. truth' = Settled(t)
    BY <1>4
  <2> HIDE DEF t
  <2>3. /\ truth' \in Truths /\ truth'.fault = truth.fault /\ truth'.crash = truth.crash
        /\ truth'.hung = truth.hung /\ truth'.hungBefore = truth.hungBefore
        /\ truth'.combined = (truth.combined \/ (Joins /\ game = "measure"))
        /\ Lows(r) = Streak => truth'.lows = Streak
    BY <2>1, <2>2, SettledTyped
  <2> QED BY <1>1, <1>4, <2>3, Zenon DEF JudgeFrame, JudgeAborts, LeaveLoop, Leaves
<1>5. ASSUME NEW r \in Readings, Found = "none",
             routed' = (routed \/ (Measuring /\ r # "idle")),
             low' = IF Measuring THEN Least(LowNow(r, Count), Streak) ELSE 0,
             Sampled(r, Count) = "none", Stays, samples' = Count,
             truth' = [Joined EXCEPT !.lows = Lows(r)]
      PROVE  JudgeFrame /\ JudgeGoesOn(r)
  <2>1. /\ truth' \in Truths /\ truth'.fault = truth.fault /\ truth'.crash = truth.crash
        /\ truth'.hung = truth.hung /\ truth'.hungBefore = truth.hungBefore
        /\ truth'.quiet = truth.quiet /\ truth'.frames = truth.frames
        /\ truth'.lows = Lows(r) /\ truth'.spent = truth.spent
        /\ truth'.combined = (truth.combined \/ (Joins /\ game = "measure"))
    BY <1>5, SampleTyped
  <2> QED BY <1>1, <1>5, <2>1, Zenon DEF JudgeFrame, JudgeGoesOn
<1> QED BY <1>2, <1>3, <1>4, <1>5

\* What a kill leaves.
LEMMA KilledDead ==
    ASSUME NEW g \in Killed(game)
    PROVE  g \notin Running /\ (g = game \/ (game \in Running /\ g \in {"killed", "stuck"}))
BY DEF Killed, Running

LEMMA FoundTyped ==
    /\ Found \in Reasons /\ (Found = "completed" => game \notin Running)
    /\ \A r, n : Sampled(r, n) \in Reasons /\ Sampled(r, n) # "completed"
BY DEF Found, Sampled, LiveAbort, Reasons

LEMMA CudaNowTyped == Typed => CudaNow \in Working \cup Broken \cup {"off", "exit0"}
BY DEF Typed, TypeOK, CudaNow, Working

LEMMA JudgeTyped == ASSUME Typed, Judge PROVE Typed'
<1>1. JudgeFrame /\ (JudgeFinds \/ \E r \in Readings : JudgeAborts(r) \/ JudgeGoesOn(r))
  BY JudgeEffect
<1>2. /\ pc = "judge" /\ cuda' = CudaNow /\ truth' \in Truths
      /\ UNCHANGED <<mode, attempt, result, recorded, frozen, pipe, spoke, heard, stalled, cried, stop>>
  BY <1>1 DEF JudgeFrame
<1>3. samples \in 0..MinSamples /\ low \in 0..Streak /\ routed \in BOOLEAN /\ game \notin {"off", "killed", "stuck"}
  BY <1>2 DEF Typed, TypeOK, Ends, InLoop
<1>4. Count \in 0..MinSamples
  <2>1. samples + 1 \in Nat /\ MinSamples \in Nat
    BY <1>3, WorkloadAssumption
  <2> QED BY <1>3, <2>1, LeastTyped DEF Count
<1>5. \A r : Least(LowNow(r, Count), Streak) \in 0..Streak
  <2> TAKE r
  <2>1. LowNow(r, Count) \in Nat /\ Streak \in Nat
    <3>1. low + 1 \in Nat /\ low \in Nat /\ 0 \in Nat /\ Streak \in Nat
      BY <1>3, WorkloadAssumption
    <3> QED BY <3>1, Zenon DEF LowNow
  <2> QED BY <2>1, LeastTyped
<1>6. ASSUME NEW w \in Reasons, Leaves(w), w = "completed" => game \notin Running,
             routed' \in BOOLEAN, low' \in 0..Streak
      PROVE  Typed'
  <2>1. /\ why' = w /\ pc' = "rest" /\ advances' = 0 /\ still' = 0 /\ age' = 0
        /\ samples' = 0 /\ measured' = 0
    BY <1>6 DEF Leaves, Forget
  <2>2. game' \notin Running /\ game' \in {game, "killed", "stuck"}
    BY <1>6, KilledDead DEF Leaves
  <2>3. /\ advances' \in 0..2 /\ still' \in 0..Hang /\ age' \in 0..Limit
        /\ samples' \in 0..MinSamples /\ measured' \in 0..Target
    BY <2>1, Zeroes, Zenon
  <2>4. game' \in Running \cup {"off", "exited", "failed", "unlinked", "crashed", "killed", "stuck"}
    BY <2>2 DEF Typed, TypeOK
  <2>5. TypeOK'
    BY <1>2, <1>6, <2>1, <2>3, <2>4, CudaNowTyped DEF Typed, TypeOK
  <2>6. Pipes' /\ Ends'
    BY <1>2, <2>1, <2>2 DEF Typed, Pipes, Ends, InLoop, CutIsLast, Cut
  <2> QED BY <2>5, <2>6 DEF Typed
<1>7. CASE JudgeFinds
  BY <1>1, <1>3, <1>6, <1>7, FoundTyped DEF JudgeFinds
<1>8. ASSUME NEW r \in Readings, JudgeAborts(r) PROVE Typed'
  <2>1. routed' \in BOOLEAN /\ low' \in 0..Streak
    BY <1>3, <1>5, <1>8, Zeroes DEF JudgeAborts
  <2> QED BY <1>6, <1>8, <2>1, FoundTyped DEF JudgeAborts
<1>9. ASSUME NEW r \in Readings, JudgeGoesOn(r) PROVE Typed'
  <2>1. routed' \in BOOLEAN /\ low' \in 0..Streak /\ samples' \in 0..MinSamples
    BY <1>3, <1>4, <1>5, <1>9, Zeroes DEF JudgeGoesOn
  <2>2. pc' = "drain" /\ UNCHANGED <<why, game, advances, still, age, measured>>
    BY <1>9 DEF JudgeGoesOn, Stays
  <2>3. TypeOK'
    BY <1>2, <2>1, <2>2, CudaNowTyped DEF Typed, TypeOK
  <2>4. Pipes' /\ Ends'
    BY <1>2, <2>2 DEF Typed, Pipes, Ends, InLoop, CutIsLast, Cut
  <2> QED BY <2>3, <2>4 DEF Typed
<1> QED BY <1>1, <1>7, <1>8, <1>9

\* What the rest reads of the pipe.
LEMMA RestReads ==
    ASSUME Typed, Rest
    PROVE  /\ heard' = heard \cup (ToSet(pipe) \ {"cut", "frame", "pulse", "mark"})
                           \cup (IF Cut THEN {"junk"} ELSE {})
           /\ ToSet(pipe) \ {"cut"} \subseteq GameEvents
           /\ PipeOK' /\ ~Cut' /\ ToSet(pipe') = {} /\ pipe' = <<>>
<1>1. PipeOK
  BY TypedPipe
<1>2. ToSet(Lines) = ToSet(pipe) \ {"cut"} /\ ToSet(pipe) \ {"cut"} \subseteq GameEvents
  BY <1>1, LinesTyped, PipeTyped DEF PipeOK
<1>3. /\ heard' = heard \cup (ToSet(Lines) \ {"frame", "pulse", "mark"})
                         \cup (IF Cut THEN {"junk"} ELSE {})
      /\ pipe' = <<>>
  BY DEF Rest, Read
<1>4. ToSet(Lines) \ {"frame", "pulse", "mark"} = ToSet(pipe) \ {"cut", "frame", "pulse", "mark"}
  BY <1>2
<1> QED BY <1>2, <1>3, <1>4, EmptyPipe

LEMMA RestTyped == ASSUME Typed, Rest PROVE Typed'
<1>1. /\ pc = "rest" /\ pc' \in {"reap", "serial", "session"}
      /\ why' \in {why, "start-missing"} /\ cuda' \in {cuda, "setup"}
      /\ UNCHANGED <<mode, attempt, result, recorded, game, frozen, spoke, measured, advances,
                     still, age, samples, routed, low, stalled, cried, stop, truth>>
  BY DEF Rest, Companion
<1>2. heard' \subseteq GameEvents \cup {"junk"}
  BY RestReads DEF Typed, TypeOK
<1>3. TypeOK'
  BY <1>1, <1>2, RestReads DEF Typed, TypeOK, PipeOK, Reasons, Working
<1>4. Pipes' /\ Ends'
  <2>1. pc' = "session" => cuda' = "off"
    BY DEF Rest, Companion
  <2> QED BY <1>1, <2>1, RestReads DEF Typed, Pipes, Ends, InLoop, PipeOK, Working
<1> QED BY <1>3, <1>4 DEF Typed

LEMMA ReapTyped == ASSUME Typed, Reap PROVE Typed'
<1>1. /\ pc = "reap" /\ pc' = "session" /\ cuda' \in {cuda, "killed"} /\ cuda' \notin Working
      /\ why' \in {why, "cuda-killed", "cuda-failed", "fatal-cuda"}
      /\ UNCHANGED <<mode, attempt, result, recorded, game_vars, seen_vars, stalled, cried,
                     stop, truth>>
  BY DEF Reap, EndCompanion, Working
<1>2. TypeOK'
  BY <1>1 DEF Typed, TypeOK, Reasons, Broken, game_vars, seen_vars
<1>3. Pipes' /\ Ends'
  BY <1>1 DEF Typed, Pipes, Ends, InLoop, CutIsLast, Cut, game_vars
<1> QED BY <1>2, <1>3 DEF Typed

LEMMA SerialTyped == ASSUME Typed, Serial PROVE Typed'
<1>1. /\ pc = "serial" /\ pc' = "session" /\ cuda' \in {cuda, "killed"} /\ cuda' \notin Working
      /\ why' \in {why, "user-stop", "cuda-failed", "fatal-cuda"}
      /\ UNCHANGED <<mode, attempt, result, recorded, game_vars, seen_vars, stalled, cried,
                     stop, truth>>
  BY DEF Serial, SerialAbort, EndCompanion, Working
<1>2. TypeOK'
  BY <1>1 DEF Typed, TypeOK, Reasons, Broken, game_vars, seen_vars
<1>3. Pipes' /\ Ends'
  BY <1>1 DEF Typed, Pipes, Ends, InLoop, CutIsLast, Cut, game_vars
<1> QED BY <1>2, <1>3 DEF Typed

\* A session runs again, or its reason becomes the probe's.
LEMMA SessionEffect ==
    ASSUME Typed, Session
    PROVE  /\ pc = "session"
           /\ UNCHANGED <<mode, game_vars, seen_vars, cuda_vars, stop, truth>>
           /\ \E xid \in {FALSE, truth.fault} :
                \/ /\ Classified(Verdict(xid)) = "hang" /\ attempt = 1
                   /\ pc' = "launch" /\ attempt' = 2 /\ why' = "none"
                   /\ UNCHANGED <<result, recorded>>
                \/ /\ ~ (Classified(Verdict(xid)) = "hang" /\ attempt = 1)
                   /\ pc' = "ended" /\ UNCHANGED <<attempt, why>>
                   /\ result' = Classified(Verdict(xid))
                   /\ recorded' = (Marked /\ Classified(Verdict(xid)) \notin Excused)
<1>1. pc = "session" /\ UNCHANGED <<mode, game_vars, seen_vars, cuda_vars, stop, truth>>
  BY DEF Session
<1>2. PICK xid \in {FALSE, truth.fault} :
        IF RunsAgain(Classified(Verdict(xid)))
        THEN /\ pc' = "launch" /\ attempt' = 2 /\ why' = "none"
             /\ UNCHANGED <<result, recorded>>
        ELSE Finish(Classified(Verdict(xid))) /\ UNCHANGED <<attempt, why>>
  BY Zenon DEF Session
<1> QED BY <1>1, <1>2 DEF RunsAgain, Finish

LEMMA SessionTyped == ASSUME Typed, Session PROVE Typed'
<1>1. /\ pc = "session" /\ pc' \in {"launch", "ended"} /\ attempt' \in {attempt, 2}
      /\ why' \in {why, "none"} /\ recorded' \in BOOLEAN
      /\ UNCHANGED <<mode, game_vars, seen_vars, cuda_vars, stop, truth>>
  BY SessionEffect DEF Typed, TypeOK
<1>2. TypeOK'
  BY <1>1 DEF Typed, TypeOK, Reasons, cuda_vars, game_vars, seen_vars
<1>3. Pipes' /\ Ends'
  BY <1>1 DEF Typed, Pipes, Ends, InLoop, CutIsLast, Cut, game_vars, cuda_vars
<1> QED BY <1>2, <1>3 DEF Typed

LEMMA BreaksTyped == ASSUME Typed, Breaks PROVE Typed'
<1>1. /\ pc' = "ended" /\ recorded' \in BOOLEAN
      /\ pipe' = <<>> /\ heard' = {} /\ routed' = FALSE /\ low' = 0
      /\ UNCHANGED <<mode, attempt, why, frozen, spoke, stalled, cried, stop, truth>>
  BY WorkloadAssumption DEF Breaks
<1>2. /\ game' \notin Running /\ game' \in {game, "killed", "stuck"}
      /\ cuda' \notin Working /\ cuda' \in {cuda, "killed"}
  BY KilledDead DEF Breaks, EndCompanion, Working
<1>3. /\ advances' \in 0..2 /\ still' \in 0..Hang /\ age' \in 0..Limit /\ low' \in 0..Streak
      /\ samples' \in 0..MinSamples /\ measured' \in 0..Target
  BY Zeroes, Zenon DEF Breaks, Forget
<1>4. PipeOK' /\ ~Cut'
  BY <1>1, EmptyPipe
<1>5. TypeOK'
  BY <1>1, <1>2, <1>3, <1>4 DEF Typed, TypeOK, Broken, PipeOK
<1>6. Pipes' /\ Ends'
  BY <1>1, <1>2, <1>4 DEF Typed, Pipes, Ends, InLoop, PipeOK
<1> QED BY <1>5, <1>6 DEF Typed

LEMMA StutterTyped == ASSUME Typed, UNCHANGED vars PROVE Typed'
<1>1. TypeOK'
  BY DEF Typed, TypeOK, vars, end_vars, game_vars, seen_vars, cuda_vars
<1>2. Pipes' /\ Ends'
  BY DEF Typed, Pipes, Ends, InLoop, CutIsLast, Cut, vars, game_vars, cuda_vars
<1> QED BY <1>1, <1>2 DEF Typed

LEMMA NextTyped == Typed /\ [Next]_vars => Typed'
<1> SUFFICES ASSUME Typed, [Next]_vars PROVE Typed'
  OBVIOUS
<1>1. CASE Monitor
  BY <1>1, LaunchTyped, DrainTyped, JudgeTyped, RestTyped, ReapTyped, SerialTyped, SessionTyped
     DEF Monitor
<1>2. CASE Game
  BY <1>2, SaysTyped, FreezesTyped, PrintsTyped, GameEndsTyped DEF Game
<1>3. CASE Cuda
  BY <1>3, CudaTyped
<1>4. CASE UserStops
  BY <1>4, UserTyped
<1>5. CASE Breaks
  BY <1>5, BreaksTyped
<1>6. CASE UNCHANGED vars
  BY <1>6, StutterTyped
<1> QED BY <1>1, <1>2, <1>3, <1>4, <1>5, <1>6 DEF Next, Done

LEMMA AlwaysTyped == Spec => []Typed
BY InitTyped, NextTyped, PTL DEF Spec

\* Every variable keeps its type.
THEOREM WorkloadTypes == Spec => []TypeOK
<1>1. Typed => TypeOK
  BY DEF Typed
<1> QED BY <1>1, AlwaysTyped, PTL

\* NothingOutlives: when a probe has ended, its benchmark and its CUDA program are dead, or
\* hung in the driver after the kill.
THEOREM NothingIsLeftBehind == Spec => []NothingOutlives
<1>1. Typed => NothingOutlives
  BY DEF Typed, Ends, InLoop, NothingOutlives
<1> QED BY <1>1, AlwaysTyped, PTL

-----------------------------------------------------------------------------
(* Hangs. *)

LEMMA SamePipe ==
    ASSUME pipe' = pipe
    PROVE  /\ Cut' = Cut /\ ToSet(pipe') = ToSet(pipe)
           /\ LastReset' = LastReset /\ FramesRead' = FramesRead /\ OldFirst' = OldFirst
BY DEF Cut, LastReset, FramesRead, OldFirst, SinceReset, Lines

Still == InLoop /\ ToSet(pipe) \cap (Resets \cup {"frame"}) = {} => still <= truth.quiet

\* The monitor's count is that of the different frames the benchmark reported since the
\* last boundary, of which a part waits in the pipe.
Counted == InLoop => truth.frames = Least(2, Heartbeats)

(***************************************************************************)
(* The watchdog's counters are never ahead of the truth, and each of the   *)
(* two runs of a probe keeps what it found.                                *)
(***************************************************************************)
HangInv ==
    /\ Counted
    /\ Still
    /\ pc = "judge" /\ Tripped /\ game \in Running => truth.hung
    /\ why = "hang" => truth.hung
    /\ pc = "launch" => why = "none"
    /\ attempt = 2 /\ pc = "launch" => truth.hung
    /\ attempt = 2 /\ pc \notin {"launch", "ended"} => truth.hungBefore
    /\ result = "hang" => truth.hung /\ truth.hungBefore
    /\ pc # "ended" => result = "none"

LEMMA InitHang == Init => HangInv
BY DEF Init, HangInv, Counted, Still, InLoop

LEMMA SaysHang ==
    ASSUME Typed, HangInv, NEW e \in GameEvents, GameSays(e)
    PROVE  HangInv'
<1>1. /\ ToSet(pipe') = ToSet(pipe) \cup {e}
      /\ IF e \in Resets THEN LastReset' # 0 /\ FramesRead' = 0 /\ ~OldFirst'
         ELSE /\ LastReset' = LastReset
              /\ FramesRead' = IF e = "frame" THEN FramesRead + 1 ELSE FramesRead
              /\ OldFirst' <=> OldFirst \/ (e = "pulse" /\ FramesRead = 0)
  BY SaysEffect, TypedPipe, AppendToLines
<1>2. /\ UNCHANGED <<pc, mode, attempt, why, result, advances, still>>
      /\ game \in Running
  BY SaysEffect DEF end_vars, seen_vars, Running
<1>3. Counted'
  <2>1. Heartbeats \in Nat
    BY HeartbeatsTyped
  <2>2. Heartbeats' = IF e \in Resets THEN 0
                      ELSE IF e = "frame" THEN Heartbeats + 1
                      ELSE IF e = "pulse" /\ Heartbeats = 0 THEN 1
                      ELSE Heartbeats
    <3>1. FramesRead \in Nat /\ advances \in 0..2 /\ Base \in 0..2 /\ StaleRead \in 0..1
      BY HeartbeatsTyped
    <3>2. CASE e \in Resets
      BY <1>1, <3>2 DEF Heartbeats, Base, StaleRead
    <3>3. CASE e \notin Resets
      <4>1. /\ Base' = Base
            /\ FramesRead' = IF e = "frame" THEN FramesRead + 1 ELSE FramesRead
            /\ OldFirst' <=> OldFirst \/ (e = "pulse" /\ FramesRead = 0)
        BY <1>1, <1>2, <3>3 DEF Base
      <4>2. /\ StaleRead = IF Base = 0 /\ OldFirst THEN 1 ELSE 0
            /\ StaleRead' = IF Base' = 0 /\ OldFirst' THEN 1 ELSE 0
        BY DEF StaleRead
      <4> QED BY <3>1, <3>3, <4>1, <4>2 DEF Heartbeats
    <3> QED BY <3>2, <3>3
  <2>3. InLoop' => InLoop
    BY <1>2 DEF InLoop
  <2>4. InLoop => truth.frames = Least(2, Heartbeats)
    BY DEF HangInv, Counted
  <2>5. truth'.frames = IF e \in Resets THEN 0
                        ELSE IF e = "frame" THEN Least(truth.frames + 1, 2)
                        ELSE IF e = "pulse" /\ truth.frames = 0 THEN 1
                        ELSE truth.frames
    BY SaysEffect
  <2>6. Counted' = (InLoop' => truth'.frames = Least(2, Heartbeats'))
    BY DEF Counted
  <2>7. /\ Least(Least(2, Heartbeats) + 1, 2) = Least(2, Heartbeats + 1)
        /\ Least(2, 0) = 0 /\ Least(2, 1) = 1
        /\ Least(2, Heartbeats) = 0 <=> Heartbeats = 0
    BY <2>1 DEF Least
  <2> QED BY <2>2, <2>3, <2>4, <2>5, <2>6, <2>7
<1>4. Still'
  <2>1. truth'.quiet = IF e \in Resets \cup {"frame"} THEN 0 ELSE truth.quiet
    BY SaysEffect
  <2> QED BY <1>1, <1>2, <2>1 DEF HangInv, Still, InLoop
<1>5. truth'.hung = truth.hung /\ truth'.hungBefore = truth.hungBefore
  BY SaysEffect
<1> QED BY <1>2, <1>3, <1>4, <1>5 DEF HangInv, Tripped

\* A step that leaves the watchdog alone, and shows no other frame.
LEMMA QuietHang ==
    ASSUME HangInv, pc' = pc, UNCHANGED <<attempt, why, result, advances, still>>,
           SameTruth, ToSet(pipe) \subseteq ToSet(pipe'),
           UNCHANGED <<LastReset, FramesRead, OldFirst>>,
           game' \in Running => game \in Running
    PROVE  HangInv'
<1>1. Counted' /\ Still'
  BY SameHeartbeats DEF HangInv, Counted, Still, InLoop, SameTruth
<1> QED BY <1>1 DEF HangInv, Tripped, SameTruth

LEMMA ProgramsHang ==
    ASSUME Typed, HangInv, GameFreezes \/ GamePrints \/ GameEnds \/ Cuda \/ UserStops
    PROVE  HangInv'
<1>1. truth' = truth => SameTruth
  BY TruthTyped DEF SameTruth
<1>2. CASE GameFreezes
  BY <1>1, <1>2, SamePipe, QuietHang DEF GameFreezes, end_vars, seen_vars
<1>3. CASE GamePrints
  BY <1>3, SamePipe, PrintsEffect, QuietHang DEF GamePrints, end_vars, seen_vars
<1>4. CASE GameEnds
  <2>1. game \in Running /\ UNCHANGED <<pc, end_vars, seen_vars>>
    BY <1>4 DEF GameEnds, Running
  <2> QED BY <1>4, <2>1, EndsEffect, EndsPipe, QuietHang DEF end_vars, seen_vars
<1>5. CASE Cuda
  <2>1. UNCHANGED <<pc, end_vars, game_vars, seen_vars>> /\ SameTruth
    BY <1>1, <1>5, CudaEffect, StallEffect DEF Cuda, CudaSteps, CudaStalls, CudaWatchdog
  <2> QED BY <2>1, SamePipe, QuietHang DEF end_vars, game_vars, seen_vars
<1>6. CASE UserStops
  BY <1>1, <1>6, SamePipe, QuietHang DEF UserStops, end_vars, game_vars, seen_vars
<1> QED BY <1>2, <1>3, <1>4, <1>5, <1>6

LEMMA LaunchHang == ASSUME Typed, HangInv, Launch PROVE HangInv'
<1>1. /\ pc = "launch" /\ pc' = "drain" /\ pipe' = <<>> /\ advances' = 0 /\ still' = 0
      /\ UNCHANGED <<attempt, why, result>>
  BY DEF Launch, end_vars
<1>2. ~Cut /\ PipeOK
  BY <1>1, TypedPipe DEF Typed, Pipes, InLoop, Cut, ToSet
<1>3. LastReset' = 0 /\ FramesRead' = 0 /\ ~OldFirst'
  BY <1>1, <1>2, ReadLines
<1>4. Counted' /\ Still'
  BY <1>1, <1>3, LaunchEffect DEF Counted, Heartbeats, Base, StaleRead, Still, Least
<1> QED BY <1>1, <1>4, LaunchEffect DEF HangInv

LEMMA DrainHang == ASSUME Typed, HangInv, Drain PROVE HangInv'
<1>1. /\ pc = "drain" /\ pc' = "judge" /\ InLoop
      /\ UNCHANGED <<attempt, why, result, game>>
  BY DEF Drain, end_vars, InLoop
<1> DEFINE shown == ToSet(pipe) \cap (Resets \cup {"frame"}) # {}
<1>2. /\ Heartbeats \in Nat /\ still \in 0..Hang /\ Hang \in Nat \ {0}
      /\ truth.quiet \in 0..Hang
  BY HeartbeatsTyped, TruthTyped, WorkloadAssumption DEF Typed, TypeOK
<1>3. truth.frames = Least(2, Heartbeats) /\ advances' = Least(2, Heartbeats)
  BY <1>1 DEF HangInv, Counted, Drain, Heartbeats
<1>4. still' = IF shown \/ StaleRead = 1 THEN 0 ELSE Least(still + 1, Hang)
  <2>1. still' = IF ToSet(Lines) \cap (Resets \cup {"frame"}) # {} \/ StaleRead = 1 THEN 0
                 ELSE Least(still + 1, Hang)
    BY DEF Drain
  <2>2. ToSet(Lines) \cap (Resets \cup {"frame"}) = ToSet(pipe) \cap (Resets \cup {"frame"})
    BY DrainReads DEF Resets
  <2> QED BY <2>1, <2>2
<1>5. /\ truth'.quiet = IF shown THEN 0 ELSE Least(truth.quiet + 1, Hang)
      /\ truth'.hung = (truth.hung \/ (truth'.quiet = Hang /\ truth.frames = 2 /\ game \in Running))
      /\ truth'.frames = truth.frames /\ truth'.hungBefore = truth.hungBefore
  BY DrainEffect
<1>6. ~shown => still <= truth.quiet
  BY <1>1 DEF HangInv, Still
<1> HIDE DEF shown
<1>7. still' <= truth'.quiet /\ (still' >= Hang => truth'.quiet = Hang)
  BY <1>2, <1>4, <1>5, <1>6 DEF Least
<1>8. Counted'
  <2>1. Heartbeats' = advances'
    BY <1>2, <1>3, DrainReads DEF Heartbeats, Base, StaleRead, Least
  <2>2. Least(2, Least(2, Heartbeats)) = Least(2, Heartbeats)
    BY <1>2 DEF Least
  <2> QED BY <1>3, <1>5, <2>1, <2>2 DEF Counted
<1>9. Still'
  BY <1>7 DEF Still
<1>10. Tripped' /\ game' \in Running => truth'.hung
  BY <1>1, <1>3, <1>5, <1>7 DEF Tripped
<1> QED BY <1>1, <1>5, <1>8, <1>9, <1>10 DEF HangInv

LEMMA JudgeHang == ASSUME Typed, HangInv, Judge PROVE HangInv'
<1>1. JudgeFrame /\ (JudgeFinds \/ \E r \in Readings : JudgeAborts(r) \/ JudgeGoesOn(r))
  BY JudgeEffect
<1>2. /\ pc = "judge" /\ UNCHANGED <<attempt, result, pipe>>
      /\ truth'.hung = truth.hung /\ truth'.hungBefore = truth.hungBefore
  BY <1>1 DEF JudgeFrame
<1>3. ASSUME NEW w, Leaves(w), w = "hang" => truth.hung PROVE HangInv'
  <2>1. why' = w /\ pc' = "rest"
    BY <1>3 DEF Leaves
  <2>2. Counted' /\ Still'
    BY <2>1 DEF Counted, Still, InLoop
  <2> QED BY <1>2, <1>3, <2>1, <2>2 DEF HangInv
<1>4. Found = "hang" => Tripped /\ game \in Running
  BY DEF Found
<1>5. \A r, n : Sampled(r, n) # "hang"
  BY DEF Sampled, LiveAbort
<1>6. CASE JudgeFinds
  BY <1>2, <1>3, <1>4, <1>6 DEF JudgeFinds, HangInv
<1>7. ASSUME NEW r \in Readings, JudgeAborts(r) PROVE HangInv'
  BY <1>3, <1>5, <1>7 DEF JudgeAborts
<1>8. ASSUME NEW r \in Readings, JudgeGoesOn(r) PROVE HangInv'
  <2>1. /\ pc' = "drain" /\ UNCHANGED <<why, game, advances, still>>
        /\ truth'.quiet = truth.quiet /\ truth'.frames = truth.frames
    BY <1>8 DEF JudgeGoesOn, Stays
  <2>2. Heartbeats' = Heartbeats /\ ToSet(pipe') = ToSet(pipe)
    BY <1>2, <2>1, SamePipe, SameHeartbeats
  <2>3. Counted' /\ Still'
    BY <1>2, <2>1, <2>2 DEF HangInv, Counted, Still, InLoop
  <2> QED BY <1>2, <2>1, <2>3 DEF HangInv
<1> QED BY <1>1, <1>6, <1>7, <1>8

LEMMA AfterHang ==
    ASSUME Typed, HangInv, Rest \/ Reap \/ Serial \/ Breaks
    PROVE  HangInv'
<1>1. /\ pc' \in {"reap", "serial", "session", "ended"} /\ UNCHANGED <<attempt, truth>>
      /\ why' \in {why, "start-missing", "cuda-killed", "cuda-failed", "fatal-cuda", "user-stop"}
      /\ result' # "hang" /\ (pc' # "ended" => pc # "launch" /\ pc # "ended" /\ result' = result)
  BY DEF HangInv, Rest, Companion, Reap, Serial, SerialAbort, Breaks
<1>2. Counted' /\ Still'
  BY <1>1 DEF Counted, Still, InLoop
<1> QED BY <1>1, <1>2 DEF HangInv

LEMMA SessionHang == ASSUME Typed, HangInv, Session PROVE HangInv'
<1>1. /\ pc = "session" /\ truth' = truth /\ why' \in {why, "none"}
      /\ \/ pc' = "launch" /\ why' = "none" /\ result' = result /\ why = "hang"
         \/ pc' = "ended" /\ attempt' = attempt /\ (result' = "hang" => why = "hang" /\ attempt # 1)
  <2>1. \A xid \in {FALSE, truth.fault} : Classified(Verdict(xid)) = "hang" => why = "hang"
    BY DEF Classified, Verdict
  <2> QED BY <2>1, SessionEffect
<1>2. attempt \in 1..2
  BY DEF Typed, TypeOK
<1>3. Counted' /\ Still'
  BY <1>1 DEF Counted, Still, InLoop
<1> QED BY <1>1, <1>2, <1>3 DEF HangInv

LEMMA NextHang == Typed /\ HangInv /\ [Next]_vars => HangInv'
<1> SUFFICES ASSUME Typed, HangInv, [Next]_vars PROVE HangInv'
  OBVIOUS
<1>1. CASE Monitor
  BY <1>1, LaunchHang, DrainHang, JudgeHang, AfterHang, SessionHang DEF Monitor
<1>2. CASE Game
  BY <1>2, SaysHang, ProgramsHang DEF Game
<1>3. CASE Cuda \/ UserStops
  BY <1>3, ProgramsHang
<1>4. CASE Breaks
  BY <1>4, AfterHang
<1>5. CASE UNCHANGED vars
  <2>1. SameTruth /\ UNCHANGED <<pc, game, pipe, attempt, why, result, advances, still>>
    BY <1>5, TruthTyped DEF SameTruth, vars, end_vars, game_vars, seen_vars
  <2> QED BY <2>1, SamePipe, QuietHang
<1> QED BY <1>1, <1>2, <1>3, <1>4, <1>5 DEF Next, Done

LEMMA AlwaysHang == Spec => []HangInv
<1>1. Init => HangInv
  BY InitHang
<1>2. Typed /\ HangInv /\ [Next]_vars => HangInv'
  BY NextHang
<1> QED BY <1>1, <1>2, AlwaysTyped, PTL DEF Spec

\* HangIsConfirmed: a hang that a probe reports was one in both of its runs.
THEOREM HangsAreConfirmed == Spec => []HangIsConfirmed
<1>1. HangInv => HangIsConfirmed
  BY DEF HangInv, HangIsConfirmed
<1> QED BY <1>1, AlwaysHang, PTL

-----------------------------------------------------------------------------
(* What was heard, and what went wrong. *)

\* The events that the verdicts ask for.
Words == {"start", "measure", "good", "short", "bad", "fatal", "junk"}
Summaries == {"good", "short", "bad"}

LEMMA DrainHears ==
    ASSUME Typed, Drain
    PROVE  \A w \in Words : /\ w \in Seen' <=> w \in Seen
                            /\ w \in heard' <=> w \in Seen
<1>1. /\ heard' = heard \cup (ToSet(pipe) \ {"cut", "frame", "pulse", "mark"})
      /\ ToSet(pipe') = IF Cut THEN {"cut"} ELSE {}
  BY DrainReads
<1> QED BY <1>1 DEF Seen, Words

LEMMA RestHears ==
    ASSUME Typed, Rest
    PROVE  /\ Seen' = heard' /\ ~Cut'
           /\ \A w \in Words : w \in heard' <=> w \in Seen \/ (w = "junk" /\ Cut)
<1>1. /\ heard' = heard \cup (ToSet(pipe) \ {"cut", "frame", "pulse", "mark"})
                        \cup (IF Cut THEN {"junk"} ELSE {})
      /\ ToSet(pipe') = {} /\ ~Cut'
  BY RestReads
<1> QED BY <1>1 DEF Seen, Words

LEMMA SameSeen == ASSUME pipe' = pipe, heard' = heard PROVE Seen' = Seen /\ Cut' = Cut
BY SamePipe DEF Seen

LEMMA SaysSeen ==
    ASSUME Typed, NEW e \in GameEvents, GameSays(e)
    PROVE  Seen' = Seen \cup {e} /\ heard' = heard /\ ~Cut'
BY SaysEffect, TypedPipe, AppendToLines DEF Seen, seen_vars

LEMMA EndsSeen ==
    ASSUME Typed, GameEnds
    PROVE  /\ heard' = heard /\ \A w \in Words : w \in Seen' <=> w \in Seen
           /\ Cut' => Cut \/ game' = "dying"
<1>1. heard' = heard
  BY DEF GameEnds, seen_vars
<1> QED BY <1>1, EndsPipe DEF Seen, Words

LEMMA OffSeen ==
    ASSUME Typed, pc \in {"reap", "serial", "session", "ended", "launch"}
    PROVE  Seen = heard /\ ~Cut
<1>1. pipe = <<>>
  BY DEF Typed, Pipes, InLoop
<1> QED BY <1>1 DEF Seen, Cut, ToSet

\* The benchmark speaks in order, and is heard in order.
OrderInv ==
    pc \notin {"launch", "ended"} =>
        /\ game \notin {"loading", "unlinked", "killed", "stuck"} => "start" \in Seen
        /\ game \in {"measure", "done", "exited"} => "measure" \in Seen
        /\ game \in {"done", "exited"} => Summaries \cap Seen # {}
        /\ Summaries \cap Seen # {} => "measure" \in Seen
        /\ Summaries \cap heard # {} => "measure" \in heard
        /\ "measure" \in Seen => game \notin {"loading", "startup", "unlinked"}

LEMMA SaysOrder ==
    ASSUME Typed, OrderInv, NEW e \in GameEvents, GameSays(e)
    PROVE  OrderInv'
<1>1. Seen' = Seen \cup {e} /\ heard' = heard
  BY SaysSeen
<1>2. /\ pc' = pc /\ InLoop
      /\ \/ e = "start" /\ game = "loading" /\ game' = "startup"
         \/ e = "measure" /\ game = "startup" /\ game' = "measure"
         \/ e \in {"good", "short", "bad"} /\ game = "measure" /\ game' = "done"
         \/ /\ e \notin {"start", "measure", "good", "short", "bad"}
            /\ game \in {"startup", "measure"} /\ game' = game
  BY SaysEffect DEF Typed, Ends, Running
<1> QED BY <1>1, <1>2 DEF OrderInv, Summaries, InLoop

\* The benchmark's end, a kill and the reading of the pipe keep the order.
LEMMA KeepOrder ==
    ASSUME OrderInv, pc' \notin {"launch", "ended"} => pc \notin {"launch", "ended"},
           \A w \in Words \ {"junk"} : w \in Seen' <=> w \in Seen,
           \/ heard' = heard
           \/ \A w \in Words \ {"junk"} : w \in heard' <=> w \in Seen,
           \/ game' = game
           \/ game' \in {"killed", "stuck"}
           \/ game = "done" /\ game' \in {"exited", "failed", "dying"}
           \/ game = "loading" /\ game' = "unlinked"
           \/ game \in {"startup", "measure"} /\ game' = "dying"
           \/ game = "dying" /\ game' = "crashed"
    PROVE  OrderInv'
<1> SUFFICES ASSUME pc' \notin {"launch", "ended"} PROVE OrderInv'
  BY DEF OrderInv
<1>1. /\ "start" \in Seen' <=> "start" \in Seen
      /\ "measure" \in Seen' <=> "measure" \in Seen
      /\ Summaries \cap Seen' # {} <=> Summaries \cap Seen # {}
  BY DEF Words, Summaries
<1>2. \/ heard' = heard
      \/ /\ "measure" \in heard' <=> "measure" \in Seen
         /\ Summaries \cap heard' # {} <=> Summaries \cap Seen # {}
  BY DEF Words, Summaries
<1> QED BY <1>1, <1>2 DEF OrderInv

LEMMA OthersOrder ==
    ASSUME Typed, OrderInv,
           GameFreezes \/ GamePrints \/ GameEnds \/ Cuda \/ UserStops \/ Breaks \/ UNCHANGED vars
    PROVE  OrderInv'
<1>1. CASE GameEnds
  <2>1. /\ pc' = pc
        /\ \/ game = "done" /\ game' \in {"exited", "failed", "dying"}
           \/ game = "loading" /\ game' = "unlinked"
           \/ game \in {"startup", "measure"} /\ game' = "dying"
           \/ game = "dying" /\ game' = "crashed"
    BY <1>1 DEF GameEnds
  <2> QED BY <1>1, <2>1, EndsSeen, KeepOrder
<1>2. CASE GameFreezes \/ GamePrints \/ Cuda \/ UserStops \/ UNCHANGED vars
  <2>1. UNCHANGED <<pc, game, pipe, heard>>
    BY <1>2 DEF GameFreezes, GamePrints, Cuda, CudaSteps, CudaStalls, CudaWatchdog, UserStops, vars,
       end_vars, game_vars, seen_vars
  <2> QED BY <2>1, SameSeen, KeepOrder
<1>3. CASE Breaks
  BY <1>3 DEF Breaks, OrderInv
<1> QED BY <1>1, <1>2, <1>3

LEMMA MonitorOrder == ASSUME Typed, OrderInv, Monitor PROVE OrderInv'
<1>1. CASE Launch
  <2>1. game' = "loading" /\ heard' = {} /\ pipe' = <<>>
    BY <1>1 DEF Launch
  <2>2. Seen' = {}
    BY <2>1, EmptyPipe DEF Seen
  <2> QED BY <2>1, <2>2 DEF OrderInv
<1>2. CASE Drain
  <2>1. pc = "drain" /\ game' = game
    BY <1>2 DEF Drain
  <2> QED BY <1>2, <2>1, DrainHears, KeepOrder
<1>3. CASE Judge
  <2>1. JudgeFrame /\ (JudgeFinds \/ \E r \in Readings : JudgeAborts(r) \/ JudgeGoesOn(r))
    BY <1>3, JudgeEffect
  <2>2. pc = "judge" /\ UNCHANGED <<heard, pipe>>
    BY <2>1 DEF JudgeFrame
  <2>3. game' = game \/ game' \in {"killed", "stuck"}
    BY <2>1, KilledDead DEF JudgeFinds, JudgeAborts, JudgeGoesOn, Leaves, Stays
  <2> QED BY <2>2, <2>3, SameSeen, KeepOrder
<1>4. CASE Rest
  <2>1. pc = "rest" /\ game' = game
    BY <1>4 DEF Rest
  <2> QED BY <1>4, <2>1, RestHears, KeepOrder DEF Words
<1>5. CASE Reap \/ Serial \/ Session
  <2>1. UNCHANGED <<game, pipe, heard>> /\ pc \in {"reap", "serial", "session"}
    BY <1>5 DEF Reap, Serial, Session, game_vars, seen_vars
  <2> QED BY <2>1, SameSeen, KeepOrder
<1> QED BY <1>1, <1>2, <1>3, <1>4, <1>5 DEF Monitor

LEMMA NextOrder == Typed /\ OrderInv /\ [Next]_vars => OrderInv'
<1> SUFFICES ASSUME Typed, OrderInv, [Next]_vars PROVE OrderInv'
  OBVIOUS
<1> QED BY MonitorOrder, SaysOrder, OthersOrder DEF Next, Game, Done

LEMMA AlwaysOrder == Spec => []OrderInv
<1>1. Init => OrderInv
  BY DEF Init, OrderInv
<1>2. Typed /\ OrderInv /\ [Next]_vars => OrderInv'
  BY NextOrder
<1> QED BY <1>1, <1>2, AlwaysTyped, PTL DEF Spec

(***************************************************************************)
(* What shows a fault is true, and a fault shows somewhere for as long as  *)
(* the run lasts: this is what the verdicts may rely on.                   *)
(***************************************************************************)
Evident ==
    \/ {"short", "bad", "fatal", "junk"} \cap Seen # {} \/ spoke \/ Cut
    \/ game \in {"failed", "dying", "crashed"} \/ truth.crash
    \/ cuda \in {"exit1", "exit3", "exit4", "tearbad"} \/ stalled \/ cried

Blamed ==
    \/ {"short", "bad", "fatal", "junk"} \cap Seen # {} \/ spoke
    \/ game \in {"failed", "dying", "crashed", "killed", "stuck"}
    \/ cuda \in Broken \cup {"tearbad"} \/ (stalled /\ cuda \in Working)

FaultInv ==
    /\ Evident => truth.fault
    /\ pc \notin {"launch", "ended"} /\ truth.fault => Blamed
    /\ truth.crash => game \in {"dying", "crashed", "killed", "stuck"}

LEMMA GameFault ==
    ASSUME Typed, FaultInv, Game
    PROVE  FaultInv'
<1>1. pc' = pc /\ UNCHANGED cuda_vars /\ truth.fault \in BOOLEAN /\ truth.crash \in BOOLEAN
  BY TruthTyped DEF Game, GameSays, GameFreezes, GamePrints, GameEnds
<1>2. ASSUME NEW e \in GameEvents, GameSays(e) PROVE FaultInv'
  <2>1. Seen' = Seen \cup {e} /\ ~Cut'
    BY <1>2, SaysSeen
  <2>2. /\ game \in {"loading", "startup", "measure"}
        /\ game' \in {"loading", "startup", "measure", "done"} /\ spoke' = spoke
        /\ truth'.crash = truth.crash
        /\ truth'.fault = (truth.fault \/ e \in {"short", "bad", "fatal", "junk"})
    BY <1>2, SaysEffect
  <2> QED BY <1>1, <2>1, <2>2 DEF FaultInv, Evident, Blamed, cuda_vars
<1>3. CASE GameFreezes
  <2>1. UNCHANGED <<game, pipe, spoke, heard, truth>>
    BY <1>3 DEF GameFreezes, seen_vars
  <2> QED BY <1>1, <2>1, SameSeen DEF FaultInv, Evident, Blamed, cuda_vars
<1>4. CASE GamePrints
  <2>1. UNCHANGED <<game, pipe, heard>> /\ spoke' = TRUE
    BY <1>4 DEF GamePrints, seen_vars
  <2> QED BY <1>1, <1>4, <2>1, SameSeen, PrintsEffect DEF FaultInv, Evident, Blamed, cuda_vars
<1>5. CASE GameEnds
  <2>1. /\ game \in {"loading", "startup", "measure", "done", "dying"}
        /\ game' \in {"exited", "failed", "unlinked", "dying", "crashed"}
        /\ game' \in {"exited", "failed", "unlinked"} => game \in {"loading", "done"}
        /\ spoke' = spoke
    BY <1>5 DEF GameEnds
  <2>2. /\ {"short", "bad", "fatal", "junk"} \cap Seen' # {}
              <=> {"short", "bad", "fatal", "junk"} \cap Seen # {}
        /\ Cut' => Cut \/ game' = "dying"
    BY <1>5, EndsSeen DEF Words
  <2> QED BY <1>1, <1>5, <2>1, <2>2, EndsEffect DEF FaultInv, Evident, Blamed, cuda_vars
<1> QED BY <1>2, <1>3, <1>4, <1>5 DEF Game

LEMMA CudaFault ==
    ASSUME Typed, FaultInv, Cuda
    PROVE  FaultInv'
<1>1. /\ UNCHANGED <<pc, game, spoke, pipe, heard>> /\ truth.fault \in BOOLEAN
      /\ truth'.crash = truth.crash
  BY TruthTyped, CudaEffect, StallEffect
     DEF Cuda, CudaSteps, CudaStalls, CudaWatchdog, game_vars, seen_vars
<1>2. Seen' = Seen /\ Cut' = Cut
  BY <1>1, SameSeen
<1>3. CASE CudaSteps
  <2>1. /\ ~stalled /\ stalled' = stalled /\ cried' \in {cried, cried \/ cuda' \in {"exit1", "tearbad"}}
        /\ cuda' \in {"sanity", "load", "tearok", "exit0", "exit1", "tearbad"}
           \/ (cuda = "tearbad" /\ cuda' = "exit3")
        /\ cuda \in Working
    BY <1>3 DEF CudaSteps, CudaSetsUp, CudaChecks, CudaLoads, CudaReleases, Working
  <2>2. cuda = "tearbad" => cuda' = "exit3"
    BY <1>3 DEF CudaSteps, CudaSetsUp, CudaChecks, CudaLoads, CudaReleases
  <2>3. truth'.fault = (truth.fault \/ cuda' \in {"exit1", "tearbad"})
    BY <1>3, CudaEffect
  <2>4. {cried, stalled} \subseteq BOOLEAN
    BY DEF Typed, TypeOK
  <2> QED BY <1>1, <1>2, <2>1, <2>2, <2>3, <2>4 DEF FaultInv, Evident, Blamed, Working, Broken
<1>4. CASE CudaStalls
  <2>1. cuda' = cuda /\ stalled' = TRUE /\ cuda \in Working /\ truth'.fault = TRUE
    BY <1>4, StallEffect DEF CudaStalls
  <2> QED BY <1>1, <1>2, <2>1 DEF FaultInv, Evident, Blamed
<1>5. CASE CudaWatchdog
  <2>1. cuda' = "exit4" /\ stalled /\ UNCHANGED <<stalled, cried, truth>>
    BY <1>5 DEF CudaWatchdog
  <2> QED BY <1>1, <1>2, <2>1 DEF FaultInv, Evident, Blamed, Broken
<1> QED BY <1>3, <1>4, <1>5 DEF Cuda

\* A step of the monitor that kills, starts nothing that is broken and hides nothing.
LEMMA KeepFault ==
    ASSUME Typed, FaultInv, pc' \notin {"launch", "ended"} => pc \notin {"launch", "ended"},
           truth'.fault = truth.fault, truth'.crash = truth.crash,
           UNCHANGED <<spoke, stalled, cried>>,
           \A w \in Words : /\ w \in Seen => w \in Seen'
                            /\ w \in Seen' => w \in Seen \/ Cut,
           Cut' => Cut,
           game' = game \/ (game \in Running /\ game' \in {"killed", "stuck"}),
           \/ cuda' = cuda
           \/ cuda = "off" /\ cuda' = "setup"
           \/ cuda \in Working /\ cuda' = "killed"
    PROVE  FaultInv'
<1> DEFINE bad == {"short", "bad", "fatal", "junk"}
<1>a. bad \subseteq Words
  BY DEF Words
<1>b. bad \cap Seen' # {} => bad \cap Seen # {} \/ Cut
  <2> HIDE DEF bad
  <2> SUFFICES ASSUME NEW w \in bad, w \in Seen' PROVE bad \cap Seen # {} \/ Cut
    OBVIOUS
  <2> QED BY <1>a
<1>c. bad \cap Seen # {} => bad \cap Seen' # {}
  <2> HIDE DEF bad
  <2> SUFFICES ASSUME NEW w \in bad, w \in Seen PROVE bad \cap Seen' # {}
    OBVIOUS
  <2> QED BY <1>a
<1>1. /\ bad \cap Seen' # {} => bad \cap Seen # {} \/ Cut
      /\ bad \cap Seen # {} => bad \cap Seen' # {}
  BY <1>b, <1>c
<1>2. Evident' => Evident
  BY <1>1 DEF Evident, Running
<1>3. Blamed => Blamed'
  BY <1>1 DEF Blamed, Working, Broken, Running
<1>4. truth.crash => game' \in {"dying", "crashed", "killed", "stuck"}
  BY DEF FaultInv
<1> QED BY <1>2, <1>3, <1>4 DEF FaultInv

\* What Judge and the steps after the loop do to CUDA.
LEMMA CudaMoves ==
    ASSUME Typed, Judge \/ Rest \/ Reap \/ Serial
    PROVE  \/ cuda' = cuda
           \/ cuda = "off" /\ cuda' = "setup"
           \/ cuda \in Working /\ cuda' = "killed"
<1>1. CASE Judge
  BY <1>1 DEF Judge, CudaNow, Joins
<1>2. CASE Rest
  BY <1>2 DEF Rest, Companion
<1>3. CASE Reap \/ Serial
  BY <1>3 DEF Reap, Serial, EndCompanion
<1> QED BY <1>1, <1>2, <1>3

LEMMA MonitorFault == ASSUME Typed, FaultInv, Monitor PROVE FaultInv'
<1>1. CASE Launch
  <2>1. /\ game' = "loading" /\ heard' = {} /\ pipe' = <<>> /\ spoke' = FALSE /\ cuda' = "off"
        /\ stalled' = FALSE /\ cried' = FALSE
    BY <1>1 DEF Launch
  <2>2. Seen' = {} /\ ~Cut'
    BY <2>1, EmptyPipe DEF Seen
  <2>3. truth'.fault = FALSE /\ truth'.crash = FALSE
    BY <1>1, LaunchEffect
  <2> QED BY <2>1, <2>2, <2>3 DEF FaultInv, Evident
<1>2. CASE Drain
  <2>1. pc = "drain" /\ UNCHANGED <<game, spoke, cuda_vars>>
    BY <1>2 DEF Drain
  <2>2. truth'.fault = truth.fault /\ truth'.crash = truth.crash /\ Cut' = Cut
    BY <1>2, DrainEffect, DrainReads
  <2>3. FaultInv'
    <3>1. LET Bad == {"short", "bad", "fatal", "junk"}
          IN  Bad \cap Seen' # {} <=> Bad \cap Seen # {}
      BY <1>2, DrainHears DEF Words
    <3> QED BY <2>1, <2>2, <3>1 DEF FaultInv, Evident, Blamed, cuda_vars
  <2> QED BY <2>3
<1>3. CASE Judge
  <2>1. JudgeFrame /\ (JudgeFinds \/ \E r \in Readings : JudgeAborts(r) \/ JudgeGoesOn(r))
    BY <1>3, JudgeEffect
  <2>2. /\ pc = "judge" /\ UNCHANGED <<heard, pipe, spoke, stalled, cried>>
        /\ truth'.fault = truth.fault /\ truth'.crash = truth.crash
    BY <2>1 DEF JudgeFrame
  <2>3. game' = game \/ (game \in Running /\ game' \in {"killed", "stuck"})
    BY <2>1, KilledDead DEF JudgeFinds, JudgeAborts, JudgeGoesOn, Leaves, Stays
  <2> QED BY <1>3, <2>2, <2>3, SameSeen, CudaMoves, KeepFault
<1>4. CASE Rest
  <2>1. pc = "rest" /\ UNCHANGED <<game, spoke, stalled, cried, truth>>
    BY <1>4 DEF Rest
  <2> QED BY <1>4, <2>1, RestHears, CudaMoves, KeepFault
<1>5. CASE Reap \/ Serial
  <2>1. /\ UNCHANGED <<game, pipe, heard, spoke, stalled, cried, truth>>
        /\ pc \in {"reap", "serial"}
    BY <1>5 DEF Reap, Serial, game_vars, seen_vars
  <2> QED BY <1>5, <2>1, SameSeen, CudaMoves, KeepFault
<1>6. CASE Session
  <2>1. /\ UNCHANGED <<game, pipe, heard, spoke, stalled, cried, cuda, truth>>
        /\ pc' \in {"launch", "ended"}
    BY <1>6, SessionEffect DEF game_vars, seen_vars, cuda_vars
  <2> QED BY <2>1, SameSeen DEF FaultInv, Evident
<1> QED BY <1>1, <1>2, <1>3, <1>4, <1>5, <1>6 DEF Monitor

LEMMA RestFault ==
    ASSUME Typed, FaultInv, UserStops \/ Breaks \/ UNCHANGED vars
    PROVE  FaultInv'
<1>1. CASE UserStops \/ UNCHANGED vars
  <2>1. UNCHANGED <<pc, game, pipe, heard, spoke, cuda, stalled, cried, truth>>
    BY <1>1 DEF UserStops, vars, game_vars, seen_vars, cuda_vars
  <2> QED BY <2>1, SameSeen DEF FaultInv, Evident, Blamed
<1>2. CASE Breaks
  <2>1. /\ pc' = "ended" /\ heard' = {} /\ pipe' = <<>> /\ UNCHANGED <<spoke, stalled, cried, truth>>
        /\ cuda' \in {cuda, "killed"}
    BY <1>2 DEF Breaks, EndCompanion
  <2>2. game' = game \/ (game \in Running /\ game' \in {"killed", "stuck"})
    BY <1>2, KilledDead DEF Breaks
  <2>3. Seen' = {} /\ ~Cut'
    BY <2>1, EmptyPipe DEF Seen
  <2> QED BY <2>1, <2>2, <2>3 DEF FaultInv, Evident
<1> QED BY <1>1, <1>2

LEMMA AlwaysFault == Spec => []FaultInv
<1>1. Init => FaultInv
  <2> HAVE Init
  <2>1. truth.crash = FALSE
    BY DEF Init, Untouched
  <2>2. Seen = {} /\ ~Cut
    BY DEF Init, Seen, Cut, ToSet
  <2> QED BY <2>1, <2>2 DEF Init, FaultInv, Evident
<1>2. Typed /\ FaultInv /\ [Next]_vars => FaultInv'
  BY MonitorFault, GameFault, CudaFault, RestFault DEF Next, Done
<1> QED BY <1>1, <1>2, AlwaysTyped, PTL DEF Spec

-----------------------------------------------------------------------------
(* Time and telemetry. *)

(***************************************************************************)
(* The limits of time and of lost load never run ahead of the truth.       *)
(***************************************************************************)
ClockInv ==
    InLoop =>
        /\ "measure" \in heard /\ game \in {"measure", "done"} => age <= truth.spent
        /\ low <= truth.lows
        /\ samples < MinSamples => low = 0
        /\ low >= 1 => routed

LEMMA ProgramsClock ==
    ASSUME Typed, OrderInv, ClockInv, Game \/ Cuda \/ UserStops \/ UNCHANGED vars
    PROVE  ClockInv'
<1> DEFINE kept ==
        /\ UNCHANGED <<pc, seen_vars>> /\ truth'.spent = truth.spent /\ truth'.lows = truth.lows
        /\ game' \in {"measure", "done"} => game \in {"startup", "measure", "done"}
<1>1. kept
  <2>1. ASSUME NEW e \in GameEvents, GameSays(e) PROVE kept
    BY <2>1, SaysEffect
  <2>2. CASE GameFreezes \/ GamePrints \/ GameEnds
    BY <2>2, PrintsEffect, EndsEffect DEF GameFreezes, GamePrints, GameEnds, SameTruth
  <2>3. CASE Cuda
    BY <2>3, CudaEffect, StallEffect DEF Cuda, CudaSteps, CudaStalls, CudaWatchdog, SameTruth, game_vars
  <2>4. CASE UserStops \/ UNCHANGED vars
    BY <2>4 DEF UserStops, vars, game_vars
  <2> QED BY <2>1, <2>2, <2>3, <2>4 DEF Game
<1>2. InLoop /\ game = "startup" => "measure" \notin heard
  BY DEF OrderInv, InLoop, Seen
<1> QED BY <1>1, <1>2 DEF ClockInv, InLoop, seen_vars

LEMMA DrainClock == ASSUME Typed, OrderInv, ClockInv, Drain PROVE ClockInv'
<1>1. pc = "drain" /\ UNCHANGED <<game, samples, routed, low>>
  BY DEF Drain
<1>2. truth'.lows = truth.lows
  BY DrainEffect
<1>3. ASSUME "measure" \in heard', game \in {"measure", "done"}
      PROVE  age' <= truth'.spent
  <2>1. truth'.spent = Least(truth.spent + 1, Limit)
    BY <1>3, DrainEffect
  <2>2. truth.spent \in 0..Limit /\ age \in 0..Limit /\ Limit \in Nat
    BY TruthTyped, WorkloadAssumption DEF Typed, TypeOK
  <2>3. CASE "measure" \in ToSet(Lines)
    <3>1. age' = 0
      BY <2>3 DEF Drain
    <3> QED BY <2>1, <2>2, <3>1 DEF Least
  <2>4. CASE "measure" \notin ToSet(Lines)
    <3>1. age' = Least(age + 1, Limit)
      BY <2>4 DEF Drain
    <3>2. "measure" \in heard
      BY <1>3, <2>4, DrainReads
    <3>3. age <= truth.spent
      BY <1>1, <1>3, <3>2 DEF ClockInv, InLoop
    <3> QED BY <2>1, <2>2, <3>1, <3>3 DEF Least
  <2> QED BY <2>3, <2>4
<1> QED BY <1>1, <1>2, <1>3 DEF ClockInv, InLoop

LEMMA GoesOnClock ==
    ASSUME Typed, ClockInv, pc = "judge", heard' = heard, NEW r \in Readings, JudgeGoesOn(r)
    PROVE  ClockInv'
<1>1. /\ UNCHANGED <<game, age>> /\ truth'.spent = truth.spent /\ samples' = Count
      /\ routed' = (routed \/ (Measuring /\ r # "idle"))
      /\ low' = IF Measuring THEN Least(LowNow(r, Count), Streak) ELSE 0
      /\ truth'.lows = Lows(r) /\ Sampled(r, Count) = "none"
  BY DEF JudgeGoesOn, Stays
<1>2. /\ low \in Nat /\ samples \in Nat /\ truth.lows \in Nat /\ Streak \in Nat /\ MinSamples \in Nat
      /\ 1 < Streak /\ routed \in BOOLEAN /\ low <= Streak
  BY TruthTyped, WorkloadAssumption DEF Typed, TypeOK
<1>3. /\ low <= truth.lows /\ (samples < MinSamples => low = 0) /\ (low >= 1 => routed)
      /\ "measure" \in heard /\ game \in {"measure", "done"} => age <= truth.spent
  BY DEF ClockInv, InLoop
<1>4. r \in {"busy", "low", "idle"}
  BY WorkloadAssumption
<1>5. CASE ~Measuring
  <2>1. low' = 0 /\ truth'.lows = 0
    BY <1>1, <1>5 DEF Lows
  <2> QED BY <1>1, <1>3, <2>1 DEF ClockInv
<1>6. CASE Measuring /\ Count < MinSamples
  <2>1. low = 0
    BY <1>2, <1>3, <1>6 DEF Count, Least
  <2>2. low' = 0
    BY <1>1, <1>2, <1>6, <2>1 DEF LowNow, Least, Count
  <2>3. truth'.lows \in Nat
    BY <1>1, <1>2 DEF Lows, Least
  <2> QED BY <1>1, <1>3, <2>2, <2>3 DEF ClockInv
<1>7. CASE Measuring /\ ~(Count < MinSamples)
  <2>1. Count >= MinSamples
    BY <1>2, <1>7 DEF Count, Least
  <2>2. CASE r = "busy"
    <3>1. low' = 0
      BY <1>1, <1>2, <1>7, <2>1, <2>2 DEF LowNow, Least
    <3>2. truth'.lows \in Nat
      BY <1>1, <1>2 DEF Lows, Least
    <3> QED BY <1>1, <1>3, <1>7, <3>1, <3>2 DEF ClockInv
  <2>3. CASE r \in {"low", "idle"}
    <3>1. low' = Least(low + 1, Streak) /\ truth'.lows = Least(truth.lows + 1, Streak)
      BY <1>1, <1>7, <2>1, <2>3 DEF LowNow, Lows
    <3>2. low' <= truth'.lows
      BY <1>2, <1>3, <3>1 DEF Least
    <3>3. routed'
      <4>1. r = "idle" => routed
        BY <1>1, <1>7, <2>1, <2>3 DEF Sampled, LiveAbort, Measuring
      <4> QED BY <1>1, <1>2, <1>7, <2>3, <4>1
    <3> QED BY <1>1, <1>3, <1>7, <3>2, <3>3 DEF ClockInv
  <2> QED BY <1>4, <2>2, <2>3
<1> QED BY <1>5, <1>6, <1>7

LEMMA MonitorClock == ASSUME Typed, OrderInv, ClockInv, Monitor \/ Breaks PROVE ClockInv'
<1>1. CASE Launch
  <2>1. heard' = {} /\ low' = 0
    BY <1>1 DEF Launch
  <2> QED BY <1>1, <2>1, LaunchEffect DEF ClockInv
<1>2. CASE Drain
  BY <1>2, DrainClock
<1>3. CASE Judge
  <2>1. JudgeFrame /\ (JudgeFinds \/ \E r \in Readings : JudgeAborts(r) \/ JudgeGoesOn(r))
    BY <1>3, JudgeEffect
  <2>2. JudgeFinds \/ (\E r \in Readings : JudgeAborts(r)) => pc' = "rest"
    BY DEF JudgeFinds, JudgeAborts, Leaves
  <2>3. pc = "judge" /\ heard' = heard
    BY <2>1 DEF JudgeFrame
  <2> QED BY <2>1, <2>2, <2>3, GoesOnClock DEF ClockInv, InLoop
<1>4. CASE Rest \/ Reap \/ Serial \/ Session \/ Breaks
  <2>1. pc' \in {"reap", "serial", "session", "launch", "ended"}
    BY <1>4, SessionEffect DEF Rest, Companion, Reap, Serial, Breaks
  <2> QED BY <2>1 DEF ClockInv, InLoop
<1> QED BY <1>1, <1>2, <1>3, <1>4 DEF Monitor

LEMMA AlwaysClock == Spec => []ClockInv
<1>1. Init => ClockInv
  BY DEF Init, ClockInv, InLoop
<1>2. Typed /\ OrderInv /\ ClockInv /\ [Next]_vars => ClockInv'
  BY MonitorClock, ProgramsClock DEF Next, Done
<1> QED BY <1>1, <1>2, AlwaysTyped, AlwaysOrder, PTL DEF Spec

-----------------------------------------------------------------------------
(* The CUDA workload. *)

\* Where a companion runs, and what a passed benchmark's has come to.
CompanionInv ==
    /\ pc \in {"drain", "judge", "rest", "reap", "serial"} => cuda # "killed"
    /\ pc \in {"drain", "judge", "rest"} /\ mode # "together" => cuda = "off"
    /\ pc = "reap" => mode = "together" /\ cuda # "off"
    /\ pc = "serial" => mode = "serial" /\ cuda # "off" /\ Passed
    /\ pc = "session" /\ Passed =>
         /\ cuda \notin {"exit1", "exit3", "exit4"}
         /\ mode = "serial" => cuda = "exit0"
         /\ mode = "together" => cuda # "off" /\ ~cried

LEMMA JudgeCompanion == ASSUME Typed, CompanionInv, Judge PROVE CompanionInv'
<1>1. pc = "judge" /\ mode' = mode /\ cuda' = CudaNow /\ pc' \in {"drain", "rest"}
  BY JudgeEffect DEF JudgeFrame, JudgeFinds, JudgeAborts, JudgeGoesOn, Leaves, Stays
<1>2. cuda' = cuda \/ (cuda' = "setup" /\ mode = "together")
  BY <1>1 DEF CudaNow, Joins
<1> QED BY <1>1, <1>2 DEF CompanionInv

LEMMA RestCompanion == ASSUME Typed, CompanionInv, Rest PROVE CompanionInv'
<1>1. /\ pc = "rest" /\ UNCHANGED <<mode, game, cried>>
      /\ pc' = IF Companion = "missed" THEN "session" ELSE Companion
      /\ why' = IF Companion = "missed" THEN "start-missing" ELSE why
      /\ cuda' = IF Companion = "serial" THEN "setup" ELSE cuda
  BY DEF Rest
<1>2. CASE cuda # "off"
  <2>1. Companion = "reap"
    BY <1>2 DEF Companion
  <2> QED BY <1>1, <1>2, <2>1 DEF CompanionInv
<1>3. CASE cuda = "off" /\ (mode = "none" \/ ~Passed)
  <2>1. Companion = "session"
    BY <1>3 DEF Companion
  <2> QED BY <1>1, <1>3, <2>1 DEF CompanionInv, Passed
<1>4. CASE cuda = "off" /\ mode = "serial" /\ Passed
  <2>1. Companion = "serial"
    BY <1>4 DEF Companion
  <2> QED BY <1>1, <1>4, <2>1 DEF CompanionInv, Passed
<1>5. CASE cuda = "off" /\ mode \notin {"none", "serial"} /\ Passed
  <2>1. Companion = "missed"
    BY <1>5 DEF Companion
  <2> QED BY <1>1, <1>5, <2>1 DEF CompanionInv, Passed
<1> QED BY <1>2, <1>3, <1>4, <1>5

LEMMA ReapCompanion == ASSUME Typed, CompanionInv, Reap PROVE CompanionInv'
<1>1. /\ pc = "reap" /\ pc' = "session" /\ mode = "together" /\ cuda # "off" /\ cuda # "killed"
      /\ UNCHANGED <<mode, game, cried>>
  BY DEF Reap, CompanionInv, game_vars
<1>2. CASE ~Passed
  <2>1. ~Passed'
    BY <1>1, <1>2 DEF Reap, Passed
  <2> QED BY <1>1, <2>1 DEF CompanionInv
<1>3. CASE Passed
  <2>1. Passed' => ~cried /\ cuda' # "off" /\ cuda' \notin {"exit1", "exit3", "exit4"}
    BY <1>1, <1>3 DEF Reap, Passed, Broken, Working
  <2> QED BY <1>1, <2>1 DEF CompanionInv
<1> QED BY <1>2, <1>3

LEMMA SerialCompanion == ASSUME Typed, CompanionInv, Serial PROVE CompanionInv'
<1>1. /\ pc = "serial" /\ pc' = "session" /\ mode = "serial" /\ cuda # "off" /\ mode' = mode
      /\ cuda \in Working \cup Broken \cup {"exit0"}
  BY DEF Serial, CompanionInv, Typed, TypeOK
<1>2. Passed' => cuda' = "exit0"
  BY <1>1 DEF Serial, SerialAbort, EndCompanion, Passed, Working, Broken
<1> QED BY <1>1, <1>2 DEF CompanionInv

LEMMA OthersCompanion ==
    ASSUME Typed, CompanionInv,
           Launch \/ Drain \/ Session \/ Breaks \/ Game \/ Cuda \/ UserStops \/ UNCHANGED vars
    PROVE  CompanionInv'
<1>1. CASE Launch
  BY <1>1 DEF Launch, CompanionInv
<1>2. CASE Drain
  BY <1>2 DEF Drain, CompanionInv, end_vars, cuda_vars
<1>3. CASE Session \/ Breaks
  <2>1. pc' \in {"launch", "ended"}
    BY <1>3, SessionEffect DEF Breaks
  <2> QED BY <2>1 DEF CompanionInv
<1>4. CASE Game
  <2>1. UNCHANGED <<pc, mode, cuda>> /\ game \in Running
    BY <1>4, SaysEffect DEF Game, GameSays, GameFreezes, GamePrints, GameEnds, Running,
       end_vars, cuda_vars
  <2>2. InLoop
    BY <2>1 DEF Typed, Ends
  <2> QED BY <2>1, <2>2 DEF CompanionInv, InLoop
<1>5. CASE Cuda
  <2>1. /\ UNCHANGED <<pc, mode, why, game>> /\ cuda \in Working
        /\ cuda' \in Working \cup {"exit0", "exit1", "exit3", "exit4"}
    BY <1>5 DEF Cuda, CudaSteps, CudaStalls, CudaWatchdog, CudaSetsUp, CudaChecks, CudaLoads,
       CudaReleases, Working, Guarded, end_vars, game_vars
  <2>2. pc \notin {"launch", "session", "ended"}
    BY <2>1 DEF Typed, Ends
  <2> QED BY <2>1, <2>2 DEF CompanionInv, Passed, Working
<1>6. CASE UserStops \/ UNCHANGED vars
  BY <1>6 DEF UserStops, vars, CompanionInv, Passed, end_vars, game_vars, cuda_vars
<1> QED BY <1>1, <1>2, <1>3, <1>4, <1>5, <1>6

LEMMA AlwaysCompanion == Spec => []CompanionInv
<1>1. Init => CompanionInv
  BY DEF Init, CompanionInv
<1>2. Typed /\ CompanionInv /\ [Next]_vars => CompanionInv'
  BY JudgeCompanion, RestCompanion, ReapCompanion, SerialCompanion, OthersCompanion
     DEF Next, Monitor, Done
<1> QED BY <1>1, <1>2, AlwaysTyped, PTL DEF Spec

(***************************************************************************)
(* A companion that is started beside the benchmark meets a measurement,   *)
(* unless that goes wrong: it is started in the first pass that has heard  *)
(* of the measurement, which no full measurement can have ended by then.   *)
(***************************************************************************)
MeetsInv ==
    /\ pc \notin {"launch", "ended"} /\ mode = "together" /\ cuda # "off" =>
         \/ truth.combined \/ game \in {"dying", "crashed", "killed", "stuck"}
         \/ {"short", "bad"} \cap Seen # {}
    /\ pc = "drain" /\ mode = "together" /\ cuda = "off" =>
         Phase(heard) # "measure" \/ game \notin Running
    /\ InLoop /\ "measure" \notin heard => measured = 0
    /\ pc = "judge" /\ Joins => measured <= 1
    /\ InLoop /\ "good" \in Seen => measured >= Target

LEMMA DrainMeets == ASSUME Typed, OrderInv, MeetsInv, Drain PROVE MeetsInv'
<1>1. /\ pc = "drain" /\ pc' = "judge" /\ UNCHANGED <<mode, game, cuda>>
      /\ measured' = IF game = "measure" /\ ~frozen THEN Least(measured + 1, Target) ELSE measured
      /\ truth'.combined = truth.combined
  BY DrainEffect DEF Drain, end_vars, cuda_vars
<1>2. measured \in 0..Target /\ Target \in Nat /\ 1 < Target
  BY WorkloadAssumption DEF Typed, TypeOK
<1>3. \A w \in Words : (w \in Seen' <=> w \in Seen) /\ (w \in heard' <=> w \in Seen)
  BY DrainHears
<1>4. measured <= measured' /\ measured' <= measured + 1
  BY <1>1, <1>2 DEF Least
<1>5. "measure" \notin heard' => measured' = 0
  <2> SUFFICES ASSUME "measure" \notin heard' PROVE measured' = 0
    OBVIOUS
  <2>1. "measure" \notin Seen
    BY <1>3 DEF Words
  <2>2. game # "measure" /\ "measure" \notin heard
    BY <1>1, <2>1 DEF OrderInv, Seen
  <2> QED BY <1>1, <2>2 DEF MeetsInv, InLoop
<1>6. Joins' => measured' <= 1
  <2> SUFFICES ASSUME Joins' PROVE measured' <= 1
    OBVIOUS
  <2>1. mode = "together" /\ cuda = "off" /\ Phase(heard') = "measure" /\ game \in Running
    BY <1>1 DEF Joins
  <2>2. Summaries \cap heard' = {}
    BY <2>1 DEF Phase, Summaries
  <2>3. Summaries \cap heard = {}
    BY <1>3, <2>2 DEF Summaries, Words, Seen
  <2>4. "measure" \notin heard
    BY <1>1, <2>1, <2>3 DEF MeetsInv, Phase, Summaries
  <2>5. measured = 0
    BY <1>1, <2>4 DEF MeetsInv, InLoop
  <2> QED BY <1>2, <1>4, <2>5
<1>7. "good" \in Seen' => measured' >= Target
  <2>1. "good" \in Seen' => "good" \in Seen
    BY <1>3 DEF Words
  <2>2. "good" \in Seen => measured >= Target
    BY <1>1 DEF MeetsInv, InLoop
  <2> QED BY <1>1, <1>2, <1>4, <2>1, <2>2
<1>8. {"short", "bad"} \cap Seen # {} => {"short", "bad"} \cap Seen' # {}
  BY <1>3 DEF Words
<1> QED BY <1>1, <1>5, <1>6, <1>7, <1>8 DEF MeetsInv, InLoop

LEMMA JudgeMeets == ASSUME Typed, OrderInv, MeetsInv, Judge PROVE MeetsInv'
<1>1. JudgeFrame /\ (JudgeFinds \/ \E r \in Readings : JudgeAborts(r) \/ JudgeGoesOn(r))
  BY JudgeEffect
<1>2. /\ pc = "judge" /\ cuda' = CudaNow /\ UNCHANGED <<mode, heard, pipe>>
      /\ truth'.combined = (truth.combined \/ (Joins /\ game = "measure"))
  BY <1>1 DEF JudgeFrame
<1>3. Seen' = Seen
  BY <1>2, SameSeen
<1>4. game' = game \/ (game \in Running /\ game' \in {"killed", "stuck"})
  BY <1>1, KilledDead DEF JudgeFinds, JudgeAborts, JudgeGoesOn, Leaves, Stays
<1>5. pc' = "rest" \/ (pc' = "drain" /\ UNCHANGED <<game, measured>>)
  BY <1>1 DEF JudgeFinds, JudgeAborts, JudgeGoesOn, Leaves, Stays
<1>6. Joins => game = "measure" \/ game = "dying" \/ {"short", "bad"} \cap Seen # {}
  <2> SUFFICES ASSUME Joins, game \notin {"measure", "dying"} PROVE {"short", "bad"} \cap Seen # {}
    OBVIOUS
  <2>1. "measure" \in Seen /\ game \in Running
    BY DEF Joins, Phase, Seen
  <2>2. game = "done"
    BY <1>2, <2>1 DEF OrderInv, Running
  <2>3. Summaries \cap Seen # {}
    BY <1>2, <2>2 DEF OrderInv
  <2>4. "good" \notin Seen
    <3>1. measured <= 1 /\ measured \in Nat /\ Target \in Nat /\ 1 < Target
      BY <1>2, WorkloadAssumption DEF MeetsInv, Typed, TypeOK
    <3> QED BY <1>2, <3>1 DEF MeetsInv, InLoop
  <2> QED BY <2>3, <2>4 DEF Summaries
<1>7. truth.combined \in BOOLEAN
  BY TruthTyped
<1>8. mode' = "together" /\ cuda' # "off" =>
         \/ truth'.combined \/ game' \in {"dying", "crashed", "killed", "stuck"}
         \/ {"short", "bad"} \cap Seen' # {}
  <2>1. CASE Joins
    BY <1>2, <1>3, <1>4, <1>6, <1>7, <2>1
  <2>2. CASE ~Joins
    <3>1. cuda' = cuda
      BY <1>2, <2>2 DEF CudaNow
    <3> QED BY <1>2, <1>3, <1>4, <1>7, <3>1 DEF MeetsInv
  <2> QED BY <2>1, <2>2
<1>9. pc' = "drain" /\ mode' = "together" /\ cuda' = "off" =>
         Phase(heard') # "measure" \/ game' \notin Running
  BY <1>2, <1>5 DEF CudaNow, Joins
<1> QED BY <1>2, <1>3, <1>5, <1>8, <1>9 DEF MeetsInv, InLoop

LEMMA GameMeets == ASSUME Typed, MeetsInv, Game PROVE MeetsInv'
<1> DEFINE kept ==
      /\ UNCHANGED <<pc, mode, cuda, heard, measured>> /\ truth'.combined = truth.combined
      /\ game \in Running
      /\ game \in {"dying", "crashed", "killed", "stuck"}
             => game' \in {"dying", "crashed", "killed", "stuck"}
      /\ {"short", "bad"} \cap Seen # {} => {"short", "bad"} \cap Seen' # {}
      /\ "good" \in Seen' => "good" \in Seen \/ measured >= Target
<1>1. kept
  <2>1. ASSUME NEW e \in GameEvents, GameSays(e) PROVE kept
    BY <2>1, SaysEffect, SaysSeen DEF end_vars, seen_vars, cuda_vars, Running
  <2>2. CASE GameFreezes
    BY <2>2, SameSeen DEF GameFreezes, end_vars, seen_vars, cuda_vars, Running
  <2>3. CASE GamePrints
    BY <2>3, SameSeen, PrintsEffect DEF SameTruth, GamePrints, end_vars, seen_vars, cuda_vars, Running
  <2>4. CASE GameEnds
    <3>1. {"short", "bad"} \cap Seen # {} => {"short", "bad"} \cap Seen' # {}
      BY <2>4, EndsSeen DEF Words
    <3>2. "good" \in Seen' => "good" \in Seen
      BY <2>4, EndsSeen DEF Words
    <3> QED BY <2>4, <3>1, <3>2, EndsEffect DEF SameTruth, GameEnds, end_vars, seen_vars, cuda_vars,
            Running
  <2> QED BY <2>1, <2>2, <2>3, <2>4 DEF Game
<1> QED BY <1>1 DEF MeetsInv, Joins, InLoop

LEMMA OthersMeets ==
    ASSUME Typed, CompanionInv, MeetsInv,
           Launch \/ Rest \/ Reap \/ Serial \/ Session \/ Breaks \/ Cuda \/ UserStops \/ UNCHANGED vars
    PROVE  MeetsInv'
<1>1. CASE Launch
  <2>1. /\ pc' = "drain" /\ heard' = {} /\ pipe' = <<>> /\ measured' = 0 /\ cuda' = "off"
    BY <1>1 DEF Launch
  <2>2. Seen' = {}
    BY <2>1, EmptyPipe DEF Seen
  <2>3. Phase({}) = "startup"
    BY DEF Phase
  <2> QED BY <2>1, <2>2, <2>3 DEF MeetsInv
<1>2. CASE Rest
  <2>1. /\ pc = "rest" /\ pc' \in {"reap", "serial", "session"} /\ UNCHANGED <<mode, game, truth>>
        /\ cuda' = cuda \/ mode # "together"
    BY <1>2 DEF Rest, Companion
  <2>2. {"short", "bad"} \cap Seen # {} => {"short", "bad"} \cap Seen' # {}
    BY <1>2, RestHears DEF Words
  <2> QED BY <2>1, <2>2 DEF MeetsInv, InLoop
<1>3. CASE Reap
  <2>1. pc = "reap" /\ pc' = "session" /\ UNCHANGED <<mode, game, truth, pipe, heard>>
    BY <1>3 DEF Reap, game_vars, seen_vars
  <2>2. cuda # "off"
    BY <2>1 DEF CompanionInv
  <2> QED BY <2>1, <2>2, SameSeen DEF MeetsInv, InLoop
<1>4. CASE Serial
  <2>1. pc = "serial" /\ pc' = "session" /\ mode' = mode
    BY <1>4 DEF Serial
  <2> QED BY <2>1 DEF MeetsInv, InLoop, CompanionInv
<1>5. CASE Session \/ Breaks
  <2>1. pc' \in {"launch", "ended"}
    BY <1>5, SessionEffect DEF Breaks
  <2> QED BY <2>1 DEF MeetsInv, InLoop
<1>6. CASE Cuda
  <2>1. /\ UNCHANGED <<pc, mode, game, pipe, heard, measured>> /\ cuda # "off" /\ cuda' # "off"
        /\ truth'.combined = truth.combined
    BY <1>6, CudaEffect, StallEffect DEF SameTruth, Cuda, CudaSteps, CudaStalls, CudaWatchdog,
       CudaSetsUp, CudaChecks, CudaLoads, CudaReleases, Working, Guarded, end_vars, game_vars, seen_vars
  <2> QED BY <2>1, SameSeen DEF MeetsInv, InLoop, Joins
<1>7. CASE UserStops \/ UNCHANGED vars
  <2>1. UNCHANGED <<pc, mode, game, pipe, heard, measured, cuda, truth>>
    BY <1>7 DEF UserStops, vars, end_vars, game_vars, seen_vars, cuda_vars
  <2> QED BY <2>1, SameSeen DEF MeetsInv, InLoop, Joins
<1> QED BY <1>1, <1>2, <1>3, <1>4, <1>5, <1>6, <1>7

LEMMA AlwaysMeets == Spec => []MeetsInv
<1>1. Init => MeetsInv
  BY DEF Init, MeetsInv, InLoop
<1>2. Typed /\ OrderInv /\ CompanionInv /\ MeetsInv /\ [Next]_vars => MeetsInv'
  BY DrainMeets, JudgeMeets, GameMeets, OthersMeets DEF Next, Monitor, Done
<1> QED BY <1>1, <1>2, AlwaysTyped, AlwaysOrder, AlwaysCompanion, PTL DEF Spec

-----------------------------------------------------------------------------
(* The reasons. *)

(***************************************************************************)
(* What a reason that ended the loop, or what came after it, says of the   *)
(* truth.                                                                  *)
(***************************************************************************)
WhyInv ==
    /\ pc \in {"launch", "drain", "judge"} => why = "none"
    /\ pc \in {"rest", "reap", "serial", "session"} => why # "none"
    /\ pc # "ended" => result = "none" /\ ~recorded
    /\ why = "completed" => game \in {"unlinked", "exited", "failed", "crashed"}
    /\ why \in {"cuda-failed", "protocol", "fatal-event", "pipe-closed", "fatal-output",
                "fatal-cuda"} => truth.fault
    /\ why = "timeout" => truth.spent = Limit \/ truth.fault
    /\ why = "load-lost" => truth.lows = Streak /\ (routed \/ pc = "ended")
    /\ why \in {"startup-timeout", "wrong-gpu"} => ~truth.crash
    /\ why \in {"cuda-killed", "start-missing"} => mode = "together"

\* A reason for which the loop ends.
LEMMA LeavesWhy ==
    ASSUME Typed, WhyInv, JudgeFrame, NEW w, Leaves(w), w # "none",
           w = "completed" => game \notin Running,
           w \in {"cuda-failed", "protocol", "fatal-event", "pipe-closed", "fatal-output",
                 "fatal-cuda"} => truth.fault,
           w = "timeout" => truth'.spent = Limit \/ truth.fault,
           w = "load-lost" => truth'.lows = Streak /\ routed',
           w \in {"startup-timeout", "wrong-gpu"} => ~truth.crash,
           w \notin {"cuda-killed", "start-missing"}
    PROVE  WhyInv'
<1>1. /\ pc = "judge" /\ UNCHANGED <<result, recorded>> /\ why' = w /\ pc' = "rest"
      /\ truth'.fault = truth.fault /\ truth'.crash = truth.crash
      /\ w = "completed" => game' = game
  BY DEF JudgeFrame, Leaves
<1>2. w = "completed" => game \in {"unlinked", "exited", "failed", "crashed"}
  BY <1>1 DEF Typed, TypeOK, Ends, InLoop
<1> QED BY <1>1, <1>2 DEF WhyInv

LEMMA JudgeWhy ==
    ASSUME Typed, OrderInv, FaultInv, ClockInv, CompanionInv, WhyInv, Judge
    PROVE  WhyInv'
<1>1. JudgeFrame /\ (JudgeFinds \/ \E r \in Readings : JudgeAborts(r) \/ JudgeGoesOn(r))
  BY JudgeEffect
<1>2. pc = "judge" /\ InLoop
  BY <1>1 DEF JudgeFrame, InLoop
<1>3. heard \subseteq Seen
  BY DEF Seen
<1>4. game = "dying" => truth.fault
  BY DEF FaultInv, Evident
<1>5. truth.crash => game \in {"dying", "crashed"}
  BY <1>2 DEF FaultInv, Typed, Ends
<1>6. Summaries \cap heard # {} => "measure" \in heard
  BY <1>2 DEF OrderInv
<1>7. CASE JudgeFinds
  <2>1. Found # "none" /\ Leaves(Found) /\ (truth.spent = Limit => truth'.spent = Limit)
    BY <1>7 DEF JudgeFinds
  <2>2. Found = "completed" => game \notin Running
    BY FoundTyped
  <2>3. Found \in {"protocol", "fatal-event", "pipe-closed", "fatal-output", "fatal-cuda"} => truth.fault
    BY <1>3, <1>4 DEF Found, FaultInv, Evident
  <2>4. Found = "cuda-failed" => truth.fault
    <3>1. Found = "cuda-failed" => cuda \in Broken
      BY DEF Found, CudaNow, Broken
    <3> QED BY <1>2, <3>1 DEF CompanionInv, Broken, FaultInv, Evident
  <2>5. Found = "timeout" => truth'.spent = Limit \/ truth.fault
    <3> SUFFICES ASSUME Found = "timeout" PROVE truth.spent = Limit \/ truth.fault
      BY <2>1
    <3>1. "measure" \in heard /\ age >= Limit /\ game \in Running
      BY DEF Found
    <3>2. game \in {"measure", "done", "dying"}
      BY <1>2, <1>3, <3>1 DEF OrderInv, Running
    <3>3. game # "dying" => age <= truth.spent
      BY <1>2, <3>1, <3>2 DEF ClockInv
    <3>4. truth.spent \in 0..Limit /\ age \in 0..Limit /\ Limit \in Nat
      BY TruthTyped, WorkloadAssumption DEF Typed, TypeOK
    <3> QED BY <1>4, <3>1, <3>3, <3>4
  <2>6. Found # "load-lost" /\ Found \notin {"cuda-killed", "start-missing", "wrong-gpu"}
    BY DEF Found
  <2>7. Found = "startup-timeout" => ~truth.crash
    <3> SUFFICES ASSUME Found = "startup-timeout" PROVE game \notin {"dying", "crashed"}
      BY <1>5
    <3>1. /\ "measure" \notin heard /\ game \in Running
          /\ ~(game = "dying" /\ Phase(heard) # "done")
      BY DEF Found
    <3>2. Phase(heard) # "done"
      BY <1>6, <3>1 DEF Phase, Summaries
    <3> QED BY <3>1, <3>2 DEF Running
  <2> QED BY <1>1, <2>1, <2>2, <2>3, <2>4, <2>5, <2>6, <2>7, LeavesWhy
<1>8. ASSUME NEW r \in Readings, JudgeAborts(r) PROVE WhyInv'
  <2> DEFINE w == Sampled(r, Count)
  <2>1. /\ Found = "none" /\ w # "none" /\ Leaves(w)
        /\ routed' = (routed \/ (Measuring /\ r # "idle"))
        /\ Lows(r) = Streak => truth'.lows = Streak
    BY <1>8 DEF JudgeAborts
  <2>2. w \in {"fatal-output", "fatal-cuda", "user-stop", "load-lost", "wrong-gpu", "none"}
    BY DEF Sampled, LiveAbort
  <2>3. w \in {"fatal-output", "fatal-cuda"} => truth.fault
    BY DEF Sampled, LiveAbort, FaultInv, Evident
  <2>4. w = "wrong-gpu" => ~truth.crash
    <3>1. w = "wrong-gpu" => Phase(heard) = "measure"
      BY DEF Sampled, LiveAbort
    <3>2. game \in Running /\ ~(game = "dying" /\ Phase(heard) # "done")
      BY <2>1 DEF Found
    <3> QED BY <1>5, <3>1, <3>2 DEF Running
  <2>5. w = "load-lost" => truth'.lows = Streak /\ routed'
    <3> SUFFICES ASSUME w = "load-lost" PROVE Lows(r) = Streak /\ routed
      BY <2>1
    <3>1. Measuring /\ Count >= MinSamples /\ LowNow(r, Count) >= Streak
      BY DEF Sampled, LiveAbort, Measuring
    <3>2. /\ low \in Nat /\ truth.lows \in Nat /\ Streak \in Nat /\ 1 < Streak
          /\ low <= truth.lows /\ (low >= 1 => routed)
      BY <1>2, TruthTyped, WorkloadAssumption DEF Typed, TypeOK, ClockInv
    <3>3. r \in {"low", "idle"} /\ low + 1 >= Streak
      BY <3>1, <3>2 DEF LowNow
    <3> QED BY <3>1, <3>2, <3>3 DEF Lows, Least
  <2> HIDE DEF w
  <2> QED BY <1>1, <2>1, <2>2, <2>3, <2>4, <2>5, LeavesWhy
<1>9. ASSUME NEW r \in Readings, JudgeGoesOn(r) PROVE WhyInv'
  <2>1. /\ pc' = "drain" /\ why' = "none" /\ UNCHANGED <<result, recorded>>
    BY <1>1, <1>2, <1>9 DEF JudgeFrame, JudgeGoesOn, Stays, WhyInv
  <2> QED BY <1>2, <2>1 DEF WhyInv
<1> QED BY <1>1, <1>7, <1>8, <1>9

LEMMA RestWhy == ASSUME Typed, CompanionInv, WhyInv, Rest PROVE WhyInv'
<1>1. /\ pc = "rest" /\ pc' \in {"reap", "serial", "session"}
      /\ UNCHANGED <<mode, result, recorded, game, routed, truth>>
  BY DEF Rest, Companion
<1>2. why' = why \/ (why' = "start-missing" /\ mode \notin {"none", "serial"})
  BY DEF Rest, Companion
<1>3. mode \in {"none", "serial", "together"}
  BY WorkloadAssumption DEF Typed, TypeOK
<1> QED BY <1>1, <1>2, <1>3 DEF WhyInv

LEMMA ReapWhy == ASSUME Typed, FaultInv, CompanionInv, WhyInv, Reap PROVE WhyInv'
<1>1. /\ pc = "reap" /\ pc' = "session" /\ mode = "together" /\ cuda # "killed"
      /\ UNCHANGED <<mode, result, recorded, game, routed, truth>>
  BY DEF Reap, CompanionInv, game_vars, seen_vars
<1>2. \/ why' = why \/ why' = "cuda-killed"
      \/ why' = "cuda-failed" /\ cuda \in Broken
      \/ why' = "fatal-cuda" /\ cried
  BY DEF Reap, EndCompanion, Broken, Working
<1>3. cuda \in Broken \/ cried => truth.fault
  BY <1>1 DEF FaultInv, Evident, Broken
<1> QED BY <1>1, <1>2, <1>3 DEF WhyInv

LEMMA SerialWhy == ASSUME Typed, FaultInv, CompanionInv, WhyInv, Serial PROVE WhyInv'
<1>1. /\ pc = "serial" /\ pc' = "session" /\ cuda # "killed"
      /\ UNCHANGED <<mode, result, recorded, game, routed, truth>>
  BY DEF Serial, CompanionInv, game_vars, seen_vars
<1>2. \/ why' \in {why, "user-stop"}
      \/ why' = "cuda-failed" /\ cuda \in Broken
      \/ why' = "fatal-cuda" /\ (cried \/ spoke)
  BY DEF Serial, SerialAbort
<1>3. cuda \in Broken \/ cried \/ spoke => truth.fault
  BY <1>1 DEF FaultInv, Evident, Broken
<1> QED BY <1>1, <1>2, <1>3 DEF WhyInv

LEMMA EndsWhy == ASSUME Typed, WhyInv, Session \/ Breaks PROVE WhyInv'
<1>1. CASE Session
  <2>1. /\ pc = "session" /\ UNCHANGED <<mode, game, routed, truth>>
        /\ \/ pc' = "launch" /\ why' = "none" /\ UNCHANGED <<result, recorded>>
           \/ pc' = "ended" /\ why' = why
    BY <1>1, SessionEffect DEF game_vars, seen_vars
  <2> QED BY <2>1 DEF WhyInv
<1>2. CASE Breaks
  <2>1. pc' = "ended" /\ UNCHANGED <<mode, why, truth>> /\ game' \in Killed(game)
    BY <1>2 DEF Breaks
  <2>2. why = "completed" => game' = game
    BY <2>1, KilledDead DEF WhyInv, Running
  <2> QED BY <2>1, <2>2 DEF WhyInv
<1> QED BY <1>1, <1>2

LEMMA OthersWhy ==
    ASSUME Typed, WhyInv, Launch \/ Drain \/ Game \/ Cuda \/ UserStops \/ UNCHANGED vars
    PROVE  WhyInv'
<1>1. CASE Launch \/ Drain
  <2>1. /\ pc \in {"launch", "drain"} /\ pc' \in {"drain", "judge"}
        /\ UNCHANGED <<why, result, recorded>>
    BY <1>1 DEF Launch, Drain, end_vars
  <2> QED BY <2>1 DEF WhyInv
<1>2. CASE Game
  <2>1. UNCHANGED <<pc, why, result, recorded>> /\ game \in Running
    BY <1>2, SaysEffect DEF Game, GameSays, GameFreezes, GamePrints, GameEnds, Running, end_vars
  <2>2. InLoop
    BY <2>1 DEF Typed, Ends
  <2> QED BY <2>1, <2>2 DEF WhyInv, InLoop
<1>3. CASE Cuda
  <2>1. /\ UNCHANGED <<pc, why, result, recorded, mode, game, routed>>
        /\ truth'.spent = truth.spent /\ truth'.lows = truth.lows /\ truth'.crash = truth.crash
        /\ truth.fault => truth'.fault
    BY <1>3, CudaEffect, StallEffect, TruthTyped DEF SameTruth, Cuda, CudaSteps, CudaStalls,
       CudaWatchdog, end_vars, game_vars, seen_vars
  <2> QED BY <2>1 DEF WhyInv
<1>4. CASE UserStops \/ UNCHANGED vars
  <2>1. UNCHANGED <<pc, why, result, recorded, mode, game, routed, truth>>
    BY <1>4 DEF UserStops, vars, end_vars, game_vars, seen_vars
  <2> QED BY <2>1 DEF WhyInv
<1> QED BY <1>1, <1>2, <1>3, <1>4

LEMMA AlwaysWhy == Spec => []WhyInv
<1>1. Init => WhyInv
  BY DEF Init, WhyInv
<1>2. Typed /\ OrderInv /\ FaultInv /\ ClockInv /\ CompanionInv /\ WhyInv /\ [Next]_vars => WhyInv'
  BY JudgeWhy, RestWhy, ReapWhy, SerialWhy, EndsWhy, OthersWhy DEF Next, Monitor, Done
<1> QED BY <1>1, <1>2, AlwaysTyped, AlwaysOrder, AlwaysFault, AlwaysClock, AlwaysCompanion, PTL DEF Spec

-----------------------------------------------------------------------------
(* The results. *)

WorkloadInv ==
    /\ Typed /\ OrderInv /\ FaultInv /\ CompanionInv /\ MeetsInv /\ WhyInv /\ HangInv

LEMMA AlwaysInv == Spec => []WorkloadInv
BY AlwaysTyped, AlwaysOrder, AlwaysFault, AlwaysCompanion, AlwaysMeets, AlwaysWhy, AlwaysHang, PTL
   DEF WorkloadInv

\* Nothing happens to a probe that has ended.
LEMMA EndedStays == ASSUME Typed, pc = "ended", [Next]_vars PROVE UNCHANGED vars
<1>1. game \notin Running /\ cuda \notin Working
  BY DEF Typed, Ends, InLoop
<1>2. ~Monitor /\ ~Breaks /\ ~UserStops
  BY DEF Monitor, Launch, Drain, Judge, Rest, Reap, Serial, Session, Breaks, UserStops
<1>3. ~Game
  BY <1>1 DEF Game, GameSays, GameFreezes, GamePrints, GameEnds, Running
<1>4. ~Cuda
  BY <1>1 DEF Cuda, CudaSteps, CudaStalls, CudaWatchdog, CudaSetsUp, CudaChecks, CudaLoads,
     CudaReleases, Working, Guarded
<1> QED BY <1>2, <1>3, <1>4 DEF Next, Done

\* A probe ends with its session's reason, or with its monitor.
LEMMA EndingSteps ==
    ASSUME Typed, pc # "ended", pc' = "ended", [Next]_vars
    PROVE  Session \/ Breaks
<1>1. ~Game /\ ~Cuda /\ ~UserStops /\ ~(UNCHANGED vars)
  BY SaysEffect DEF Game, GameFreezes, GamePrints, GameEnds, Cuda, CudaSteps, CudaStalls, CudaWatchdog,
     UserStops, vars
<1>2. Monitor => Session
  BY JudgeEffect DEF Monitor, Launch, Drain, JudgeFinds, JudgeAborts, JudgeGoesOn, Leaves, Stays,
     Rest, Companion, Reap, Serial
<1> QED BY <1>1, <1>2 DEF Next, Done

\* The reason of a session that completed is ok only if nothing speaks against it.
LEMMA VerdictOk ==
    ASSUME WorkloadInv, pc = "session", NEW xid \in {FALSE, truth.fault},
           Classified(Verdict(xid)) = "ok"
    PROVE  /\ why = "completed" /\ game = "exited" /\ "good" \in heard /\ ~spoke
           /\ {"short", "bad", "fatal", "junk"} \cap heard = {}
<1>1. Verdict(xid) = "ok"
  BY DEF Classified
<1>2. why = "completed"
  <2>1. why # "completed" => Verdict(xid) = why
    BY DEF Verdict
  <2>2. why # "ok"
    BY DEF WorkloadInv, Typed, TypeOK, Reasons
  <2> QED BY <1>1, <2>1, <2>2
<1>3. /\ "junk" \notin heard /\ "fatal" \notin heard /\ game = "exited" /\ Phase(heard) = "done"
      /\ "bad" \notin heard /\ "short" \notin heard /\ ~spoke
  BY <1>1, <1>2 DEF Verdict
<1>4. "good" \in heard
  BY <1>3 DEF Phase
<1> QED BY <1>2, <1>3, <1>4

\* A reason that counts against the voltage has the truth behind it.
LEMMA VerdictTrue ==
    ASSUME WorkloadInv, pc = "session", NEW xid \in {FALSE, truth.fault},
           Classified(Verdict(xid)) \notin Excused
    PROVE  truth.fault \/ truth.hung \/ (truth.lows = Streak /\ routed) \/ truth.spent = Limit
<1> DEFINE r == Classified(Verdict(xid))
<1>1. CASE why # "completed"
  <2>1. r \in {why, "launcher"}
    BY <1>1 DEF Classified, Verdict
  <2>2. why \in Reasons \ {"none", "completed"} /\ why \notin Excused
    <3>1. why \in Reasons /\ why # "none"
      BY DEF WorkloadInv, Typed, TypeOK, WhyInv
    <3> QED BY <1>1, <2>1, <3>1 DEF Excused
  <2> QED BY <2>2 DEF Reasons, Excused, WorkloadInv, WhyInv, HangInv
<1>2. CASE why = "completed"
  <2>1. game \in {"unlinked", "exited", "failed", "crashed"}
    BY <1>2 DEF WorkloadInv, WhyInv
  <2>2. game # "unlinked"
    BY DEF Classified, Excused
  <2>3. game \in {"failed", "crashed"} => truth.fault
    BY DEF WorkloadInv, FaultInv, Evident
  <2>4. Seen = heard /\ ~Cut
    BY OffSeen DEF WorkloadInv
  <2>5. game = "exited" => /\ "start" \in heard /\ "measure" \in heard
                          /\ Summaries \cap heard # {}
    BY <2>4 DEF WorkloadInv, OrderInv
  <2>6. {"short", "bad", "fatal", "junk"} \cap heard # {} \/ spoke => truth.fault
    BY <2>4 DEF WorkloadInv, FaultInv, Evident
  <2>7. xid => truth.fault
    OBVIOUS
  <2>8. game = "exited" => Phase(heard) = "done"
    BY <2>5 DEF Phase, Summaries
  <2>9. game = "exited" /\ ~truth.fault => Verdict(xid) = "ok"
    BY <1>2, <2>5, <2>6, <2>7, <2>8 DEF Verdict
  <2> QED BY <2>1, <2>2, <2>3, <2>9 DEF Classified, Excused
<1> QED BY <1>1, <1>2

\* A step that leaves the probe unended, ends it with a session's reason, or breaks it.
LEMMA Outcome ==
    ASSUME WorkloadInv, WorkloadInv', [Next]_vars
    PROVE  \/ UNCHANGED vars
           \/ pc' # "ended" /\ result' = "none" /\ ~recorded'
           \/ /\ pc = "session" /\ UNCHANGED <<mode, game_vars, seen_vars, cuda_vars, truth>>
              /\ \E xid \in {FALSE, truth.fault} :
                   /\ result' = Classified(Verdict(xid))
                   /\ recorded' = (Marked /\ Classified(Verdict(xid)) \notin Excused)
           \/ result' = "exception" /\ recorded' = Marked
           \/ result' \in {"interrupt", "refused"} /\ ~recorded'
<1>1. CASE pc = "ended"
  BY <1>1, EndedStays DEF WorkloadInv
<1>2. CASE pc' # "ended"
  BY <1>2 DEF WorkloadInv, WhyInv
<1>3. CASE pc # "ended" /\ pc' = "ended"
  <2>1. Session \/ Breaks
    BY <1>3, EndingSteps DEF WorkloadInv
  <2>2. CASE Session
    BY <1>3, <2>2, SessionEffect DEF WorkloadInv
  <2>3. CASE Breaks
    BY <2>3 DEF Breaks
  <2> QED BY <2>1, <2>2, <2>3
<1> QED BY <1>1, <1>2, <1>3

\* A voltage goes on the blacklist only when the GPU gave a reason (HealthyIsKept): the
\* verdicts of _run_benchmark_process and _run_benchmark_session, the telemetry's streaks
\* and the limits of time, whatever the two processes did and in whatever order.
THEOREM VoltageIsBlamedForCause == Spec => []HealthyIsKept
<1>1. Init => HealthyIsKept
  BY DEF Init, HealthyIsKept
<1>2. WorkloadInv /\ WorkloadInv' /\ HealthyIsKept /\ [Next]_vars => HealthyIsKept'
  <2> SUFFICES ASSUME WorkloadInv, WorkloadInv', HealthyIsKept, [Next]_vars, recorded'
               PROVE  \/ truth'.fault \/ truth'.hung \/ (truth'.lows = Streak /\ routed')
                      \/ truth'.spent = Limit \/ result' = "exception"
    BY DEF HealthyIsKept
  <2>1. CASE UNCHANGED vars
    <3>1. /\ truth' = truth /\ routed' = routed /\ result' = result /\ recorded' = recorded
      BY <2>1 DEF vars, end_vars, seen_vars
    <3> QED BY Zenon, <3>1 DEF HealthyIsKept
  <2>2. CASE /\ pc = "session" /\ UNCHANGED <<mode, game_vars, seen_vars, cuda_vars, truth>>
             /\ \E xid \in {FALSE, truth.fault} :
                  /\ result' = Classified(Verdict(xid))
                  /\ recorded' = (Marked /\ Classified(Verdict(xid)) \notin Excused)
    <3>1. PICK xid \in {FALSE, truth.fault} : Classified(Verdict(xid)) \notin Excused
      BY <2>2
    <3>2. truth.fault \/ truth.hung \/ (truth.lows = Streak /\ routed) \/ truth.spent = Limit
      BY <2>2, <3>1, VerdictTrue
    <3>3. truth' = truth /\ routed' = routed
      BY <2>2 DEF seen_vars
    <3> QED BY Zenon, <3>2, <3>3
  <2> QED BY <2>1, <2>2, Outcome
<1> QED BY <1>1, <1>2, AlwaysInv, PTL DEF Spec

\* A benchmark that passed, and the CUDA workload of its probe, showed no fault.
LEMMA PassedIsTrue ==
    ASSUME WorkloadInv, pc = "session", Passed, "good" \in heard, ~spoke,
           {"short", "bad", "fatal", "junk"} \cap heard = {}
    PROVE  /\ truth.fault => cuda = "killed"
           /\ mode = "serial" => cuda = "exit0"
           /\ mode = "together" => truth.combined /\ ~cried
<1>1. game = "exited" /\ Seen = heard
  BY OffSeen DEF WorkloadInv, Passed
<1>2. cuda \notin Working
  BY DEF WorkloadInv, Typed, Ends
<1>3. truth.fault => cuda \in Broken
  BY <1>1, <1>2 DEF WorkloadInv, FaultInv, Blamed, Working
<1>4. /\ cuda \notin {"exit1", "exit3", "exit4"} /\ (mode = "serial" => cuda = "exit0")
      /\ mode = "together" => cuda # "off" /\ ~cried
  BY DEF WorkloadInv, CompanionInv
<1>5. mode = "together" => truth.combined
  BY <1>1, <1>4 DEF WorkloadInv, MeetsInv
<1> QED BY <1>3, <1>4, <1>5 DEF Broken

\* A probe that passed has really run, nothing went wrong meanwhile and the CUDA workload
\* it was asked for ran (PassIsSound): every place in which _run_benchmark_process and
\* _run_benchmark_session look is needed, and together they are enough.
THEOREM PassesAreSound == Spec => []PassIsSound
<1>1. Init => PassIsSound
  BY DEF Init, PassIsSound
<1>2. WorkloadInv /\ WorkloadInv' /\ PassIsSound /\ [Next]_vars => PassIsSound'
  <2> SUFFICES ASSUME WorkloadInv, WorkloadInv', PassIsSound, [Next]_vars, result' = "ok"
               PROVE  PassIsSound'
    BY DEF PassIsSound
  <2>1. CASE UNCHANGED vars
    BY <2>1 DEF PassIsSound, vars, end_vars, game_vars, seen_vars, cuda_vars
  <2>2. CASE /\ pc = "session" /\ UNCHANGED <<mode, game_vars, seen_vars, cuda_vars, truth>>
             /\ \E xid \in {FALSE, truth.fault} :
                  /\ result' = Classified(Verdict(xid))
                  /\ recorded' = (Marked /\ Classified(Verdict(xid)) \notin Excused)
    <3>1. PICK xid \in {FALSE, truth.fault} : Classified(Verdict(xid)) = "ok"
      BY <2>2
    <3>2. /\ why = "completed" /\ game = "exited" /\ "good" \in heard /\ ~spoke
          /\ {"short", "bad", "fatal", "junk"} \cap heard = {}
      BY <2>2, <3>1, VerdictOk
    <3>3. /\ truth.fault => cuda = "killed"
          /\ mode = "serial" => cuda = "exit0"
          /\ mode = "together" => truth.combined /\ ~cried
      BY <2>2, <3>2, PassedIsTrue DEF Passed
    <3> QED BY <2>2, <3>2, <3>3 DEF PassIsSound, game_vars, seen_vars, cuda_vars
  <2> QED BY <2>1, <2>2, Outcome
<1> QED BY <1>1, <1>2, AlwaysInv, PTL DEF Spec

\* Without a companion beside it, a crashed benchmark is excused only to the user.
LEMMA CrashVerdict ==
    ASSUME WorkloadInv, pc = "session", truth.crash, mode # "together",
           NEW xid \in {FALSE, truth.fault}, Classified(Verdict(xid)) \in Excused
    PROVE  Classified(Verdict(xid)) = "user-stop"
<1>1. game \in {"dying", "crashed", "killed", "stuck"}
  BY DEF WorkloadInv, FaultInv
<1>2. Classified(Verdict(xid)) = Verdict(xid) /\ Verdict(xid) # "ok"
  BY <1>1, VerdictOk DEF Classified
<1>3. why \notin {"cuda-killed", "start-missing", "startup-timeout", "wrong-gpu"}
  BY DEF WorkloadInv, WhyInv
<1>4. why \in Reasons /\ why # "launcher"
  BY DEF WorkloadInv, Typed, TypeOK, Reasons
<1>5. why = "completed" => Verdict(xid) \notin Excused
  BY <1>1 DEF Verdict, Excused
<1> QED BY <1>2, <1>3, <1>4, <1>5 DEF Verdict, Excused

\* In the phases that record anything, a crash of the benchmark puts the voltage on the
\* blacklist unless the user ended the probe or its second run was refused, however the
\* monitor came to know of it (CrashIsRecorded).
THEOREM CrashesAreRecorded == Spec => []CrashIsRecorded
<1>1. Init => CrashIsRecorded
  BY DEF Init, CrashIsRecorded
<1>2. WorkloadInv /\ WorkloadInv' /\ CrashIsRecorded /\ [Next]_vars => CrashIsRecorded'
  <2> SUFFICES ASSUME WorkloadInv, WorkloadInv', CrashIsRecorded, [Next]_vars, pc' = "ended",
                      truth'.crash, mode' # "together", Marked
               PROVE  recorded' \/ result' \in {"user-stop", "interrupt", "refused"}
    BY DEF CrashIsRecorded
  <2>1. CASE UNCHANGED vars
    BY <2>1 DEF CrashIsRecorded, vars, end_vars
  <2>2. CASE /\ pc = "session" /\ UNCHANGED <<mode, game_vars, seen_vars, cuda_vars, truth>>
             /\ \E xid \in {FALSE, truth.fault} :
                  /\ result' = Classified(Verdict(xid))
                  /\ recorded' = (Marked /\ Classified(Verdict(xid)) \notin Excused)
    BY <2>2, CrashVerdict
  <2> QED BY <2>1, <2>2, Outcome
<1> QED BY <1>1, <1>2, AlwaysInv, PTL DEF Spec
=============================================================================
