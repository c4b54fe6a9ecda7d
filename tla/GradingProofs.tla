---------------------------- MODULE GradingProofs ---------------------------
(***************************************************************************)
(* Proofs about RefCache, for any number of processes, references, states  *)
(* of the corpus and frames: a grade fails only when disturbed, and what   *)
(* it scores is what the reference shows for its own inputs, as long as    *)
(* the key of a recording determines its number of frames.  And about      *)
(* Lockstep, for any replays, numbers of frames and of boot frames, ends   *)
(* of the guests' calls and size of the audio buffer: the recording plays  *)
(* like the reference, the sides stay aligned, no sample is heard twice.   *)
(***************************************************************************)
EXTENDS RefCache, Lockstep, SequenceTheorems, TLAPS

\* The recording a process may play: it decodes to the end and is current.
Readable(p) ==
    \E c \in Cache :
        /\ Current(p, c) /\ at[p] < c.frames /\ (at[p] = 0 \/ got[p] = {c})
        /\ \A i \in 1 .. c.frames : file[i] = {c}

\* What a process that nothing disturbed knows of the file.
KnowsFile(p) ==
    /\ pc[p] = "check" => \A i \in 1 .. at[p] : file[i] = got[p]
    /\ pc[p] = "write" => \A i \in 1 .. at[p] : file[i] = {Recording(inputs[p])}
    /\ pc[p] = "load" => Readable(p)

ProcessInv(p) ==
    /\ pc[p] \in {"idle", "run"} \cup Reading => at[p] = 0
    /\ pc[p] = "write" => at[p] < inputs[p].frames
    /\ pc[p] = "play" => \A c \in got[p] : Current(p, c)
    /\ verdict[p].is = "failed" => disturbed[p]
    /\ ~disturbed[p] => KnowsFile(p)

CellsInv == \A i \in 1 .. MaxFrames : file[i] = {} \/ \E c \in Cache : file[i] = {c}

BelowEnd == \A p \in Process : at[p] < MaxFrames

CacheInv == TypeOK /\ CellsInv /\ BelowEnd /\ \A p \in Process : ProcessInv(p)

-----------------------------------------------------------------------------
(* Facts about the constants *)

LEMMA FramesBound ==
    /\ MaxFrames \in Nat /\ MaxFrames >= 1
    /\ \A in \in Inputs : in.frames \in 1 .. MaxFrames
    /\ \A c \in Cache : c.frames \in 1 .. MaxFrames
    /\ \A in \in Inputs : Recording(in) \in Cache
<1>1. MaxFrames \in Nat /\ MaxFrames >= 1
  BY RefCacheAssumption
<1>2. \A in \in Inputs : in.frames \in 1 .. MaxFrames
  BY DEF Inputs
<1>3. \A in \in Inputs : Recording(in) \in Cache /\ Recording(in).frames = in.frames
  BY DEF Recording, Cache
<1>4. \A c \in OldCache : c.frames \in 1 .. MaxFrames
  BY RefCacheAssumption
<1> QED BY <1>1, <1>2, <1>3, <1>4 DEF Cache

LEMMA CorpusInputs ==
    ASSUME NEW w \in Reference, NEW c \in Corpus
    PROVE  InputsOf(w, c) \in Inputs
<1>1. c.frames \in 1 .. MaxFrames
  BY RefCacheAssumption
<1>2. InputsOf(w, c).key \in CacheKey
  BY DEF InputsOf, CacheKey, RomFiles, ReplayFiles
<1> QED BY <1>1, <1>2 DEF InputsOf, Inputs, RomFiles, ReplayFiles

LEMMA NoInputsAreInputs == Corpus # {} => NoInputs \in Inputs
<1> SUFFICES ASSUME Corpus # {} PROVE NoInputs \in Inputs
  OBVIOUS
<1>1. PICK w \in Reference, c \in Corpus : InputsOf(w, c) \in Inputs
  BY RefCacheAssumption, CorpusInputs
<1> QED BY <1>1 DEF NoInputs

LEMMA RecordingIsCurrent ==
    ASSUME NEW p \in Process, TypeOK
    PROVE  Current(p, Recording(inputs[p]))
BY DEF TypeOK, Current, Recording

LEMMA VerdictFacts ==
    /\ \A is \in {"none", "skipped", "failed"} : Unscored(is) \in Verdict /\ Unscored(is).is = is
    /\ \A in \in Inputs, c \in Cache : Scored(in, c) \in Verdict /\ Scored(in, c).is = "scored"
<1>1. \A is : Unscored(is).is = is
  BY DEF Unscored
<1>2. \A is \in {"none", "skipped", "failed"} : Unscored(is) \in Verdict
  BY DEF Verdict
<1>3. \A in \in Inputs, c \in Cache : Scored(in, c) \in Verdict
  BY DEF Verdict
<1>4. \A in, c : Scored(in, c).is = "scored"
  BY DEF Scored
<1> QED BY <1>1, <1>2, <1>3, <1>4

-----------------------------------------------------------------------------
(* The inductive invariant *)

LEMMA InitCacheInv == Init => CacheInv
<1> SUFFICES ASSUME Init PROVE CacheInv
  OBVIOUS
<1>1. PICK c \in OldCache, n \in 0 .. MaxFrames :
          file = [i \in 1 .. MaxFrames |-> IF i <= n /\ i <= c.frames THEN {c} ELSE {}]
  BY DEF Init
<1>2. c \in Cache
  BY DEF Cache
<1>3. file \in [1 .. MaxFrames -> SUBSET Cache] /\ CellsInv
  BY <1>1, <1>2 DEF CellsInv
<1>4. TypeOK
  BY <1>3, FramesBound, VerdictFacts, NoInputsAreInputs DEF Init, TypeOK, Steps
<1>5. \A p \in Process : ProcessInv(p) /\ at[p] = 0
  BY VerdictFacts DEF Init, ProcessInv, KnowsFile
<1> QED BY <1>3, <1>4, <1>5, FramesBound DEF CacheInv, BelowEnd

\* A process that takes no step keeps its part of the invariant, unless the
\* file changes and it is disturbed.
LEMMA OthersKeepInv ==
    ASSUME CacheInv, NEW p \in Process,
           pc'[p] = pc[p], inputs'[p] = inputs[p], at'[p] = at[p], got'[p] = got[p],
           verdict'[p] = verdict[p],
           file' = file \/ disturbed'[p] \/ pc[p] = "idle",
           disturbed[p] => disturbed'[p], disturbed'[p] \in BOOLEAN
    PROVE  ProcessInv(p)'
<1>1. ProcessInv(p) /\ disturbed[p] \in BOOLEAN
  BY DEF CacheInv, TypeOK
<1>2. CASE disturbed'[p]
  BY <1>1, <1>2 DEF ProcessInv, Current
<1>3. CASE pc[p] = "idle"
  BY <1>1, <1>3 DEF ProcessInv, KnowsFile
<1>4. CASE ~disturbed'[p] /\ file' = file
  BY <1>1, <1>4 DEF ProcessInv, KnowsFile, Readable, Current
<1> QED BY <1>2, <1>3, <1>4

\* A step of one process leaves what the others hold.
LEMMA StepLocal ==
    ASSUME TypeOK, NEW p \in Process, Step(p), NEW q \in Process \ {p}
    PROVE  /\ pc'[q] = pc[q] /\ inputs'[q] = inputs[q] /\ at'[q] = at[q]
           /\ got'[q] = got[q] /\ verdict'[q] = verdict[q]
           /\ file' = file \/ disturbed'[q] \/ pc[q] = "idle"
           /\ disturbed[q] => disturbed'[q]
           /\ disturbed'[q] \in BOOLEAN
<1> USE DEF TypeOK, Goto, From, Holding, Quit, End, Ensured, Failing
<1>1. CASE Start(p) \/ ReadInputs(p)
  BY <1>1 DEF Start, ReadInputs, LoadRom, SkipRom, LoadReplay, LoadReplayFails,
              HashReplay, HashReplayFails
<1>2. CASE ReadCell(p) \/ Stale(p)
  BY <1>2 DEF ReadCell, Stale
<1>3. CASE AlreadyCurrent(p)
  BY <1>3 DEF AlreadyCurrent
<1>4. CASE Create(p)
  BY <1>4 DEF Create, Disturbing
<1>5. CASE WriteCell(p)
  BY <1>5 DEF WriteCell, Disturbing
<1>6. CASE WriteFails(p)
  BY <1>6 DEF WriteFails
<1>7. CASE Load(p) \/ LoadFails(p) \/ Score(p) \/ SkipCandidate(p) \/ Crash(p)
  BY <1>7 DEF Load, LoadFails, Score, SkipCandidate, Crash
<1> QED BY <1>1, <1>2, <1>3, <1>4, <1>5, <1>6, <1>7 DEF Step

\* The types, but for the cells and what a step gives a verdict.
LEMMA StepType ==
    ASSUME CacheInv, NEW p \in Process, Step(p)
    PROVE  TypeOK' /\ CellsInv' /\ BelowEnd'
<1> USE DEF Goto, From, Holding, Failing, Disturbing
<1>1. /\ TypeOK /\ CellsInv /\ at[p] \in Nat /\ at[p] < MaxFrames /\ inputs[p] \in Inputs
      /\ \A q \in Process : at[q] \in 0 .. MaxFrames /\ at[q] < MaxFrames
  BY FramesBound DEF CacheInv, TypeOK, BelowEnd
<1>2. \A q \in Process : 0 < MaxFrames /\ 0 \in 0 .. MaxFrames
  BY FramesBound
<1>3. at[p] + 1 \in 1 .. MaxFrames
  BY <1>1, FramesBound
<1>4. file[at[p] + 1] \in SUBSET Cache
  BY <1>1, <1>3 DEF TypeOK
<1>5. NoInputs \in Inputs
  BY <1>1, NoInputsAreInputs DEF TypeOK
<1>6. Quit(p) =>
          /\ pc' \in [Process -> Steps] /\ inputs' \in [Process -> Inputs]
          /\ at' \in [Process -> 0 .. MaxFrames] /\ BelowEnd'
          /\ got' \in [Process -> SUBSET Cache]
  BY <1>1, <1>2, <1>5 DEF Quit, TypeOK, BelowEnd, Steps
<1>7. \A is \in {"none", "skipped", "failed"} : End(p, is) =>
          /\ pc' \in [Process -> Steps] /\ inputs' \in [Process -> Inputs]
          /\ at' \in [Process -> 0 .. MaxFrames] /\ BelowEnd'
          /\ got' \in [Process -> SUBSET Cache] /\ verdict' \in [Process -> Verdict]
  BY <1>1, <1>6, VerdictFacts DEF End, TypeOK
<1>8. Ensured(p) =>
          /\ pc' \in [Process -> Steps] /\ inputs' \in [Process -> Inputs]
          /\ at' \in [Process -> 0 .. MaxFrames] /\ BelowEnd'
          /\ got' \in [Process -> SUBSET Cache] /\ verdict' \in [Process -> Verdict]
          /\ UNCHANGED purpose
  BY <1>1, <1>2, <1>7 DEF Ensured, TypeOK, BelowEnd, Steps
<1>9. CASE Start(p)
  <2>1. PICK why \in {"grade", "precompute"}, w \in Reference :
          /\ purpose' = [purpose EXCEPT ![p] = why]
          /\ inputs' = [inputs EXCEPT ![p] = InputsOf(w, corpus)]
    BY <1>9 DEF Start
  <2>2. InputsOf(w, corpus) \in Inputs
    BY <1>1, CorpusInputs DEF TypeOK
  <2>3. purpose' \in [Process -> {"grade", "precompute"}] /\ inputs' \in [Process -> Inputs]
    BY <1>1, <2>1, <2>2 DEF TypeOK
  <2>4. verdict' \in [Process -> Verdict]
    BY <1>1, <1>9, VerdictFacts DEF TypeOK, Start
  <2> QED BY <1>1, <1>2, <1>9, <2>3, <2>4 DEF Start, TypeOK, CellsInv, BelowEnd, Steps, Reading
<1>10. CASE LoadFails(p) \/ SkipCandidate(p) \/ Crash(p)
  BY <1>1, <1>7, <1>10 DEF LoadFails, SkipCandidate, Crash, TypeOK, CellsInv
<1>11. CASE LoadRom(p) \/ LoadReplay(p) \/ HashReplay(p) \/ HashReplayFails(p)
  <2>1. inputs' \in [Process -> Inputs]
    <3>1. corpus.rom \in RomFiles /\ corpus.replay \in ReplayFiles
      BY <1>1 DEF TypeOK, RomFiles, ReplayFiles
    <3>2. \A rom \in RomFiles, replayed \in ReplayFiles, hashed \in ReplayFiles \cup {NoReplay} :
              /\ [inputs[p] EXCEPT !.rom = rom] \in Inputs
              /\ [inputs[p] EXCEPT !.replay = replayed] \in Inputs
              /\ [inputs[p] EXCEPT !.key.replay = hashed] \in Inputs
      BY <1>1 DEF Inputs, CacheKey
    <3>3. \E in \in Inputs : inputs' = [inputs EXCEPT ![p] = in]
      <4>1. CASE LoadRom(p)
        BY <3>1, <3>2, <4>1 DEF LoadRom
      <4>2. CASE LoadReplay(p)
        BY <3>1, <3>2, <4>2 DEF LoadReplay
      <4>3. CASE HashReplay(p)
        BY <3>1, <3>2, <4>3 DEF HashReplay
      <4>4. CASE HashReplayFails(p)
        BY <3>1, <3>2, <4>4 DEF HashReplayFails
      <4> QED BY <1>11, <4>1, <4>2, <4>3, <4>4
    <3> QED BY <1>1, <3>3 DEF TypeOK
  <2>2. pc' \in [Process -> Steps] /\ disturbed' \in [Process -> BOOLEAN]
    BY <1>1, <1>11 DEF LoadRom, LoadReplay, HashReplay, HashReplayFails, TypeOK, Steps, Reading
  <2>3. UNCHANGED <<corpus, file, purpose, at, got, verdict>>
    BY <1>11 DEF LoadRom, LoadReplay, HashReplay, HashReplayFails
  <2> QED BY <1>1, <2>1, <2>2, <2>3 DEF TypeOK, CellsInv, BelowEnd
<1>12. CASE SkipRom(p) \/ LoadReplayFails(p)
  <2>1. PICK is \in {"none", "skipped", "failed"} : End(p, is)
    BY <1>12 DEF SkipRom, LoadReplayFails
  <2>2. UNCHANGED <<corpus, file, purpose>> /\ disturbed' \in [Process -> BOOLEAN]
    BY <1>1, <1>12 DEF SkipRom, LoadReplayFails, TypeOK
  <2> QED BY <1>1, <1>7, <2>1, <2>2 DEF TypeOK, CellsInv
<1>13. CASE ReadInputs(p)
  BY <1>11, <1>12, <1>13 DEF ReadInputs
<1>14. CASE ReadCell(p)
  <2>1. PICK c \in Cache : file[at[p] + 1] = {c}
    BY <1>1, <1>3, <1>14 DEF ReadCell, Decodes, CellsInv
  <2>2. at[p] + 1 \in 0 .. MaxFrames /\ at[p] + 1 < MaxFrames
    BY <1>1, <1>14, <2>1, FramesBound DEF ReadCell
  <2> QED BY <1>1, <1>4, <1>14, <2>2 DEF ReadCell, TypeOK, CellsInv, BelowEnd
<1>15. CASE AlreadyCurrent(p)
  BY <1>1, <1>8, <1>15 DEF AlreadyCurrent, TypeOK, CellsInv
<1>16. CASE Stale(p)
  BY <1>1, <1>2, <1>16 DEF Stale, TypeOK, CellsInv, BelowEnd, Steps
<1>17. CASE Create(p)
  <2>1. file' \in [1 .. MaxFrames -> SUBSET Cache] /\ CellsInv'
    BY <1>17 DEF Create, Blank, CellsInv
  <2> QED BY <1>1, <1>17, <2>1 DEF Create, TypeOK, BelowEnd, Steps
<1>18. CASE WriteCell(p)
  <2>1. Recording(inputs[p]) \in Cache
    BY <1>1, FramesBound
  <2>2. file' \in [1 .. MaxFrames -> SUBSET Cache] /\ CellsInv'
    BY <1>1, <1>3, <1>18, <2>1 DEF WriteCell, TypeOK, CellsInv
  <2>3. disturbed' \in [Process -> BOOLEAN]
    BY <1>1, <1>18 DEF WriteCell, TypeOK
  <2>4. CASE at[p] + 1 < inputs[p].frames /\ From(p, at[p] + 1)
             /\ UNCHANGED <<pc, purpose, inputs, got, verdict>>
    <3>1. at[p] + 1 \in 0 .. MaxFrames /\ at[p] + 1 < MaxFrames
      BY <1>1, <2>4, FramesBound
    <3> QED BY <1>1, <1>18, <2>2, <2>3, <2>4, <3>1 DEF WriteCell, TypeOK, BelowEnd
  <2>5. CASE Ensured(p)
    BY <1>1, <1>8, <1>18, <2>2, <2>3, <2>5 DEF WriteCell, TypeOK
  <2> QED BY <1>18, <2>4, <2>5 DEF WriteCell
<1>19. CASE WriteFails(p)
  BY <1>1, <1>8, <1>19 DEF WriteFails, TypeOK, CellsInv
<1>20. CASE Load(p)
  BY <1>1, <1>2, <1>4, <1>20 DEF Load, TypeOK, CellsInv, BelowEnd, Steps
<1>21. CASE Score(p)
  <2>1. PICK c \in got[p] : verdict' = [verdict EXCEPT ![p] = Scored(inputs[p], c)]
    BY <1>21 DEF Score
  <2>2. Scored(inputs[p], c) \in Verdict
    BY <1>1, VerdictFacts DEF TypeOK
  <2> QED BY <1>1, <1>21, <1>6, <2>1, <2>2 DEF Score, TypeOK, CellsInv
<1> QED BY <1>9, <1>10, <1>14, <1>15, <1>16, <1>17, <1>18, <1>19, <1>20, <1>21, <1>13 DEF Step

\* The process that takes the step.
LEMMA StepOwn ==
    ASSUME CacheInv, NEW p \in Process, Step(p)
    PROVE  ProcessInv(p)'
<1> USE DEF Goto, From, Holding, Failing
<1>1. /\ TypeOK /\ CellsInv /\ at[p] \in Nat /\ at[p] < MaxFrames /\ inputs[p] \in Inputs
      /\ ProcessInv(p)
  BY FramesBound DEF CacheInv, TypeOK, BelowEnd
<1>2. at[p] + 1 \in 1 .. MaxFrames
  BY <1>1, FramesBound
<1>3. \A is \in {"none", "skipped"} : End(p, is) => ProcessInv(p)'
  <2> SUFFICES ASSUME NEW is \in {"none", "skipped"}, End(p, is) PROVE ProcessInv(p)'
    OBVIOUS
  <2>1. pc'[p] = "idle" /\ at'[p] = 0 /\ verdict'[p].is = is
    BY <1>1, VerdictFacts DEF Quit, End, TypeOK
  <2> QED BY <2>1 DEF ProcessInv, KnowsFile
<1>4. Ensured(p) /\ (verdict[p].is = "failed" => disturbed'[p])
      /\ (disturbed'[p] \/ \E c \in Cache : Current(p, c) /\ \A i \in 1 .. c.frames : file'[i] = {c})
      => ProcessInv(p)'
  <2> SUFFICES ASSUME Ensured(p), verdict[p].is = "failed" => disturbed'[p],
                      disturbed'[p] \/ \E c \in Cache : Current(p, c) /\ \A i \in 1 .. c.frames : file'[i] = {c}
               PROVE  ProcessInv(p)'
    OBVIOUS
  <2>1. CASE purpose[p] = "precompute" /\ End(p, "none")
    BY <1>3, <2>1
  <2>2. CASE purpose[p] = "grade" /\ Goto(p, "load") /\ From(p, 0)
             /\ UNCHANGED <<purpose, inputs, verdict>>
    <3>1. pc'[p] = "load" /\ at'[p] = 0 /\ inputs'[p] = inputs[p] /\ verdict'[p] = verdict[p]
      BY <1>1, <2>2 DEF TypeOK
    <3>2. ASSUME NEW c \in Cache, Current(p, c), \A i \in 1 .. c.frames : file'[i] = {c}
          PROVE  Readable(p)'
      <4>1. Current(p, c)' /\ 0 < c.frames
        BY <3>1, <3>2, FramesBound DEF Current
      <4> QED BY <3>1, <3>2, <4>1 DEF Readable
    <3> QED BY <3>1, <3>2 DEF ProcessInv, KnowsFile
  <2> QED BY <2>1, <2>2 DEF Ensured
<1>5. CASE Start(p)
  <2>1. pc'[p] = "rom" /\ at'[p] = 0 /\ verdict'[p].is = "none"
    BY <1>1, <1>5, VerdictFacts DEF Start, TypeOK
  <2> QED BY <2>1 DEF ProcessInv, KnowsFile
<1>6. CASE LoadRom(p) \/ LoadReplay(p) \/ HashReplay(p) \/ HashReplayFails(p)
  <2>1. /\ pc[p] \in Reading /\ pc'[p] \in {"replay", "hash", "check"}
        /\ at'[p] = at[p] /\ verdict'[p] = verdict[p]
        /\ disturbed[p] => disturbed'[p]
    BY <1>1, <1>6 DEF LoadRom, LoadReplay, HashReplay, HashReplayFails, TypeOK, Reading
  <2>2. at'[p] = 0
    BY <1>1, <2>1 DEF ProcessInv
  <2> QED BY <1>1, <2>1, <2>2 DEF ProcessInv, KnowsFile
<1>7. CASE LoadReplayFails(p)
  <2>1. pc'[p] = "idle" /\ at'[p] = 0 /\ disturbed'[p]
    BY <1>1, <1>7 DEF LoadReplayFails, Quit, End, TypeOK
  <2> QED BY <2>1 DEF ProcessInv, KnowsFile
<1>8. CASE SkipRom(p) \/ SkipCandidate(p) \/ Crash(p)
  BY <1>3, <1>8 DEF SkipRom, SkipCandidate, Crash
<1>9. CASE ReadInputs(p)
  BY <1>8, <1>6, <1>7, <1>9 DEF ReadInputs
<1>10. CASE ReadCell(p)
  <2>1. PICK c \in Cache : file[at[p] + 1] = {c}
    BY <1>1, <1>2, <1>10 DEF ReadCell, Decodes, CellsInv
  <2>2. /\ pc'[p] = pc[p] /\ at'[p] = at[p] + 1 /\ got'[p] = {c} /\ inputs'[p] = inputs[p]
        /\ verdict'[p] = verdict[p] /\ disturbed'[p] = disturbed[p] /\ file' = file
        /\ at[p] + 1 < c.frames /\ pc[p] \in {"check", "load"}
        /\ at[p] = 0 \/ got[p] = {c}
    BY <1>1, <2>1, <1>10 DEF ReadCell, Decodes, TypeOK
  <2>3. pc[p] = "check" /\ ~disturbed[p] => \A i \in 1 .. at[p] + 1 : file[i] = {c}
    BY <1>1, <2>1, <2>2 DEF ProcessInv, KnowsFile
  <2>4. pc[p] = "load" /\ Readable(p) => Readable(p)'
    <3> SUFFICES ASSUME Readable(p) PROVE Readable(p)'
      OBVIOUS
    <3>1. PICK d \in Cache : Current(p, d) /\ at[p] < d.frames
                             /\ \A i \in 1 .. d.frames : file[i] = {d}
      BY DEF Readable
    <3>2. c = d
      BY <1>1, <2>1, <3>1, FramesBound
    <3> QED BY <2>2, <3>1, <3>2 DEF Readable, Current
  <2> QED BY <1>1, <2>2, <2>3, <2>4 DEF ProcessInv, KnowsFile, Reading
<1>11. CASE AlreadyCurrent(p)
  <2>1. PICK c \in Cache : file[at[p] + 1] = {c}
    BY <1>1, <1>2, <1>11 DEF AlreadyCurrent, Loads, Complete, Decodes, CellsInv
  <2>2. at[p] + 1 = c.frames /\ Current(p, c) /\ (at[p] = 0 \/ got[p] = {c})
        /\ pc[p] = "check" /\ UNCHANGED <<file, disturbed>>
    BY <2>1, <1>11 DEF AlreadyCurrent, Loads, Complete, Decodes
  <2>3. ~disturbed[p] => \A i \in 1 .. c.frames : file'[i] = {c}
    BY <1>1, <2>1, <2>2 DEF ProcessInv, KnowsFile
  <2>4. disturbed'[p] = disturbed[p] /\ disturbed[p] \in BOOLEAN
    BY <1>1, <2>2 DEF TypeOK
  <2> QED BY <1>1, <1>4, <1>11, <2>2, <2>3, <2>4 DEF AlreadyCurrent, ProcessInv
<1>12. CASE Stale(p)
  BY <1>1, <1>12 DEF Stale, ProcessInv, KnowsFile, TypeOK
<1>13. CASE Create(p)
  <2>1. /\ pc'[p] = "write" /\ at'[p] = 0 /\ inputs'[p] = inputs[p]
        /\ verdict'[p] = verdict[p] /\ disturbed'[p] = disturbed[p]
    BY <1>1, <1>13 DEF Create, Disturbing, ProcessInv, TypeOK
  <2> QED BY <1>1, <2>1, FramesBound DEF ProcessInv, KnowsFile
<1>14. CASE WriteCell(p)
  <2> DEFINE r == Recording(inputs[p])
  <2>1. /\ pc[p] = "write" /\ file' = [file EXCEPT ![at[p] + 1] = {r}]
        /\ disturbed'[p] = disturbed[p] /\ disturbed[p] \in BOOLEAN
    BY <1>1, <1>14 DEF WriteCell, Disturbing, TypeOK
  <2>2. r \in Cache /\ Current(p, r) /\ r.frames = inputs[p].frames
    BY <1>1, FramesBound, RecordingIsCurrent DEF Recording
  <2> HIDE DEF r
  <2>3. ~disturbed[p] => \A i \in 1 .. at[p] + 1 : file'[i] = {r}
    <3>1. ~disturbed[p] => \A i \in 1 .. at[p] : file[i] = {r}
      BY <1>1, <2>1 DEF ProcessInv, KnowsFile, r
    <3>2. file'[at[p] + 1] = {r} /\ \A i \in 1 .. at[p] : file'[i] = file[i]
      BY <1>1, <1>2, <2>1 DEF TypeOK
    <3> QED BY <1>1, <3>1, <3>2
  <2>4. CASE at[p] + 1 < inputs[p].frames /\ From(p, at[p] + 1)
             /\ UNCHANGED <<pc, purpose, inputs, got, verdict>>
    <3>1. pc'[p] = "write" /\ at'[p] = at[p] + 1 /\ inputs'[p] = inputs[p]
          /\ verdict'[p] = verdict[p]
      BY <1>1, <2>1, <2>4 DEF TypeOK
    <3> QED BY <1>1, <2>1, <2>3, <2>4, <3>1 DEF ProcessInv, KnowsFile, Reading, r, Recording
  <2>5. CASE at[p] + 1 = inputs[p].frames /\ Ensured(p)
    BY <1>1, <1>4, <2>1, <2>2, <2>3, <2>5 DEF ProcessInv
  <2> QED BY <1>14, <2>4, <2>5 DEF WriteCell
<1>15. CASE WriteFails(p)
  <2>1. disturbed'[p]
    BY <1>1, <1>15 DEF WriteFails, TypeOK
  <2> QED BY <1>4, <1>15, <2>1 DEF WriteFails
<1>16. CASE Load(p)
  <2>1. /\ pc'[p] = "play" /\ at'[p] = 0 /\ got'[p] = file[at[p] + 1] /\ inputs'[p] = inputs[p]
        /\ verdict'[p] = verdict[p] /\ disturbed'[p] = disturbed[p]
    BY <1>1, <1>16 DEF Load, TypeOK
  <2>2. \A c \in got'[p] : Current(p, c)'
    BY <1>16, <2>1 DEF Load, Loads, Current
  <2> QED BY <1>1, <2>1, <2>2 DEF ProcessInv, KnowsFile
<1>17. CASE LoadFails(p)
  <2>1. disturbed[p]
    <3> SUFFICES ASSUME ~disturbed[p] PROVE FALSE
      OBVIOUS
    <3>1. PICK c \in Cache : /\ Current(p, c) /\ at[p] < c.frames
                             /\ at[p] = 0 \/ got[p] = {c}
                             /\ \A i \in 1 .. c.frames : file[i] = {c}
      BY <1>1, <1>17 DEF LoadFails, ProcessInv, KnowsFile, Readable
    <3>2. file[at[p] + 1] = {c}
      BY <1>1, <3>1, FramesBound
    <3>3. Decodes(p)
      BY <3>1, <3>2 DEF Decodes
    <3>4. Loads(p) \/ ~Complete(p)
      BY <3>1, <3>2 DEF Loads
    <3> QED BY <1>17, <3>3, <3>4 DEF LoadFails, Refuses
  <2>2. pc'[p] = "idle" /\ at'[p] = 0 /\ disturbed'[p]
    BY <1>1, <1>17, <2>1 DEF LoadFails, Quit, End, TypeOK
  <2> QED BY <2>2 DEF ProcessInv, KnowsFile
<1>18. CASE Score(p)
  <2>1. PICK c \in got[p] : verdict' = [verdict EXCEPT ![p] = Scored(inputs[p], c)]
    BY <1>18 DEF Score
  <2>2. pc'[p] = "idle" /\ at'[p] = 0 /\ verdict'[p].is = "scored"
    BY <1>1, <1>18, <2>1, VerdictFacts DEF Score, Quit, TypeOK
  <2> QED BY <2>2 DEF ProcessInv, KnowsFile
<1> QED BY <1>5, <1>8, <1>10, <1>11, <1>12, <1>13, <1>14, <1>15, <1>16, <1>17, <1>18, <1>9 DEF Step

LEMMA NextCacheInv == CacheInv /\ [Next]_vars => CacheInv'
<1> SUFFICES ASSUME CacheInv, [Next]_vars PROVE CacheInv'
  OBVIOUS
<1>1. CASE Edit \/ UNCHANGED vars
  <2>1. UNCHANGED <<file, pc, purpose, inputs, at, got, verdict, disturbed>> /\ corpus' \in Corpus
    BY <1>1 DEF Edit, vars, local, CacheInv, TypeOK
  <2>2. TypeOK' /\ CellsInv' /\ BelowEnd'
    BY <2>1 DEF CacheInv, TypeOK, CellsInv, BelowEnd
  <2>3. \A p \in Process : ProcessInv(p)'
    BY <2>1, OthersKeepInv DEF CacheInv, TypeOK
  <2> QED BY <2>2, <2>3 DEF CacheInv
<1>2. ASSUME NEW p \in Process, Step(p) PROVE CacheInv'
  <2>1. TypeOK' /\ CellsInv' /\ BelowEnd'
    BY <1>2, StepType
  <2>2. ProcessInv(p)'
    BY <1>2, StepOwn
  <2>3. ASSUME NEW q \in Process \ {p} PROVE ProcessInv(q)'
    BY <1>2, StepLocal, OthersKeepInv DEF CacheInv
  <2> QED BY <2>1, <2>2, <2>3 DEF CacheInv
<1> QED BY <1>1, <1>2 DEF Next

\* The types.
THEOREM RefCacheTypeOK == Spec => []TypeOK
<1>1. CacheInv => TypeOK
  BY DEF CacheInv
<1> QED BY <1>1, InitCacheInv, NextCacheInv, PTL DEF Spec

\* Whatever earlier processes left in the file, a grade that nothing
\* disturbs does not fail: ensure_written has left a recording that load
\* takes (ref_cache.rs, ensure_written and load).
THEOREM RefCacheFailsOnlyWhenDisturbed == Spec => []FailsOnlyWhenDisturbed
<1>1. CacheInv => FailsOnlyWhenDisturbed
  BY DEF CacheInv, ProcessInv, FailsOnlyWhenDisturbed
<1> QED BY <1>1, InitCacheInv, NextCacheInv, PTL DEF Spec

-----------------------------------------------------------------------------
(* Grading from the cache implements grading live *)

\* What the corpus and the recordings of earlier times have to promise, as
\* the number of frames is not in the key.
KeyFixesFrames ==
    \A in \in WholeInputs :
        /\ \A made \in WholeInputs : made.key = in.key => made.frames = in.frames
        /\ \A c \in OldCache : c.version = CACHE_VERSION /\ c.key = in.key
                               => c.frames = in.frames /\ c.shows = Shows(in)

Working(step) == step \notin {"idle"} \cup Reading
JobOf(step, in) == [p \in Process |-> IF Working(step[p]) THEN {RunOf(in[p])} ELSE {}]

LEMMA CacheKeys ==
    /\ \A in \in Inputs : in.key = [ref_wasm |-> in.key.ref_wasm, rom |-> in.key.rom,
                                    replay |-> in.key.replay]
    /\ \A c \in Cache : c.key = [ref_wasm |-> c.key.ref_wasm, rom |-> c.key.rom,
                                  replay |-> c.key.replay]
<1>1. \A in \in Inputs : in.key = [ref_wasm |-> in.key.ref_wasm, rom |-> in.key.rom,
                                   replay |-> in.key.replay]
  BY DEF Inputs, CacheKey
<1>2. \A c \in OldCache : c.key = [ref_wasm |-> c.key.ref_wasm, rom |-> c.key.rom,
                                   replay |-> c.key.replay]
  BY RefCacheAssumption
<1>3. \A in \in Inputs : Recording(in).key = in.key
  BY DEF Recording
<1>4. \A c \in Cache : c \in OldCache \/ \E in \in Inputs : c.key = in.key
  BY <1>3 DEF Cache
<1> QED BY <1>1, <1>2, <1>4

\* A current recording scores as the live reference does, if no edit has
\* separated the reads of either.
LEMMA CurrentScoresLive ==
    ASSUME KeyFixesFrames, TypeOK, NEW p \in Process, inputs[p] \in WholeInputs,
           NEW c \in Cache \ MixedRecordings, Current(p, c)
    PROVE  Scored(inputs[p], c) = Promise!Live(RunOf(inputs[p]))
<1>1. inputs[p] \in Inputs
  BY DEF TypeOK
<1>2. c.key = inputs[p].key /\ c.version = CACHE_VERSION
  BY <1>1, CacheKeys DEF Current
<1>3. c.frames = inputs[p].frames /\ c.shows = Shows(inputs[p])
  <2>1. CASE c \in OldCache
    BY <1>2, <2>1 DEF KeyFixesFrames
  <2>2. CASE c \notin OldCache
    <3>1. PICK made \in Inputs : c = Recording(made)
      BY <2>2 DEF Cache
    <3>2. made \in WholeInputs
      BY <3>1 DEF MixedRecordings
    <3>3. made.key = inputs[p].key /\ c.frames = made.frames /\ c.shows = Shows(made)
      BY <1>2, <3>1 DEF Recording
    <3>4. made.frames = inputs[p].frames
      BY <3>2, <3>3 DEF KeyFixesFrames
    <3>5. \A in \in WholeInputs : Shows(in) = in.key
      BY DEF WholeInputs, InputsOf, Shows
    <3> QED BY <3>2, <3>3, <3>4, <3>5
  <2> QED BY <2>1, <2>2
<1>4. \A n \in 1 .. inputs[p].frames : Played(c, n) = <<Shows(inputs[p]), n>>
  BY <1>3, FramesBound DEF Played
<1> QED BY <1>4 DEF Scored, Promise!Live, RunOf

LEMMA StepImplements ==
    ASSUME KeyFixesFrames, CacheInv, CacheInv', NEW p \in Process, Step(p)
    PROVE  \/ Promise!Start(p) \/ Promise!Unready(p) \/ Promise!End(p) \/ ScoresMixed
           \/ JobOf(pc', inputs') = JobOf(pc, inputs) /\ verdict' = verdict
<1> DEFINE Same == JobOf(pc', inputs') = JobOf(pc, inputs) /\ verdict' = verdict
<1> USE DEF Goto
<1>1. /\ TypeOK /\ inputs[p] \in Inputs /\ inputs'[p] \in Inputs /\ ProcessInv(p)
      /\ got[p] \subseteq Cache
  BY DEF CacheInv, TypeOK
<1>2. job = JobOf(pc, inputs) /\ job' = JobOf(pc', inputs')
  BY DEF job, JobOf, Working
<1>3. \A is \in {"none", "failed", "skipped"} : Unscored(is) \in Promise!Unscoreds
  BY DEF Promise!Unscoreds, Promise!Unscored, Unscored
<1>4. ASSUME NEW is \in {"none", "failed", "skipped"}, pc[p] # "idle", End(p, is)
      PROVE  Promise!End(p) \/ Promise!Unready(p)
  <2>1. /\ verdict' = [verdict EXCEPT ![p] = Unscored(is)]
        /\ JobOf(pc', inputs') = [JobOf(pc, inputs) EXCEPT ![p] = {}]
    BY <1>1, <1>4 DEF End, Quit, TypeOK, JobOf, Working
  <2>2. CASE Working(pc[p])
    <3>1. JobOf(pc, inputs)[p] = {RunOf(inputs[p])}
      BY <2>2 DEF JobOf
    <3> QED BY <1>2, <1>3, <2>1, <3>1 DEF Promise!End
  <2>3. CASE ~Working(pc[p])
    <3>1. JobOf(pc, inputs)[p] = {} /\ JobOf(pc', inputs') = JobOf(pc, inputs)
      BY <2>1, <2>3 DEF JobOf
    <3> QED BY <1>2, <1>3, <2>1, <3>1 DEF Promise!Unready
  <2> QED BY <2>2, <2>3
<1>5. ASSUME Working(pc[p]), Ensured(p)
      PROVE  Promise!End(p) \/ Promise!Unready(p) \/ Same
  <2>1. CASE End(p, "none")
    BY <1>4, <1>5, <2>1 DEF Working
  <2>2. CASE Goto(p, "load") /\ UNCHANGED <<purpose, inputs, verdict>>
    BY <1>1, <1>5, <2>2 DEF TypeOK, JobOf, Working, Reading
  <2> QED BY <1>5, <2>1, <2>2 DEF Ensured
<1>6. CASE Start(p)
  <2>1. /\ pc[p] = "idle" /\ pc' = [pc EXCEPT ![p] = "rom"]
        /\ verdict' = [verdict EXCEPT ![p] = Unscored("none")]
        /\ \E w \in Reference : inputs' = [inputs EXCEPT ![p] = InputsOf(w, corpus)]
    BY <1>6 DEF Start
  <2>2. JobOf(pc, inputs)[p] = {} /\ JobOf(pc', inputs') = JobOf(pc, inputs)
    BY <1>1, <2>1 DEF TypeOK, JobOf, Working, Reading
  <2> QED BY <1>2, <1>3, <2>1, <2>2 DEF Promise!Unready
<1>7. CASE LoadRom(p) \/ LoadReplay(p)
  <2>1. /\ pc[p] \in Reading /\ pc'[p] \in Reading /\ verdict' = verdict
        /\ \A q \in Process \ {p} : pc'[q] = pc[q] /\ inputs'[q] = inputs[q]
    BY <1>1, <1>7 DEF LoadRom, LoadReplay, TypeOK, Reading
  <2> QED BY <2>1 DEF JobOf, Working
<1>8. CASE HashReplay(p) \/ HashReplayFails(p)
  <2>1. /\ pc[p] = "hash" /\ pc'[p] = "check" /\ verdict' = verdict
        /\ \A q \in Process \ {p} : pc'[q] = pc[q] /\ inputs'[q] = inputs[q]
    BY <1>1, <1>8 DEF HashReplay, HashReplayFails, TypeOK
  <2>2. /\ JobOf(pc, inputs)[p] = {}
        /\ JobOf(pc', inputs') = [JobOf(pc, inputs) EXCEPT ![p] = {RunOf(inputs'[p])}]
    BY <2>1 DEF JobOf, Working, Reading
  <2> QED BY <1>1, <1>2, <2>1, <2>2 DEF Promise!Start
<1>9. CASE SkipRom(p) \/ LoadReplayFails(p)
  BY <1>4, <1>9 DEF SkipRom, LoadReplayFails
<1>10. CASE LoadFails(p) \/ SkipCandidate(p) \/ Crash(p)
  BY <1>4, <1>10 DEF LoadFails, SkipCandidate, Crash
<1>11. CASE ReadCell(p)
  BY <1>11 DEF ReadCell, JobOf
<1>12. CASE Stale(p) \/ Create(p) \/ Load(p)
  BY <1>1, <1>12 DEF Stale, Create, Load, TypeOK, JobOf, Working, Reading
<1>13. CASE AlreadyCurrent(p) \/ WriteFails(p)
  BY <1>5, <1>13 DEF AlreadyCurrent, WriteFails, Working, Reading
<1>14. CASE WriteCell(p)
  <2>1. CASE UNCHANGED <<pc, purpose, inputs, got, verdict>>
    BY <2>1 DEF JobOf
  <2>2. CASE Ensured(p)
    BY <1>5, <1>14, <2>2 DEF WriteCell, Working, Reading
  <2> QED BY <1>14, <2>1, <2>2 DEF WriteCell
<1>15. CASE Score(p)
  <2>1. PICK c \in got[p] : verdict' = [verdict EXCEPT ![p] = Scored(inputs[p], c)]
    BY <1>15 DEF Score
  <2>2. /\ pc[p] = "play" /\ pc'[p] = "idle" /\ Current(p, c) /\ c \in Cache
        /\ \A q \in Process \ {p} : pc'[q] = pc[q] /\ inputs'[q] = inputs[q]
    BY <1>1, <1>15 DEF Score, Quit, ProcessInv, TypeOK
  <2>3. CASE inputs[p] \in WholeInputs /\ c \notin MixedRecordings
    <3>1. Scored(inputs[p], c) = Promise!Live(RunOf(inputs[p]))
      BY <1>1, <2>2, <2>3, CurrentScoresLive
    <3>2. JobOf(pc, inputs)[p] = {RunOf(inputs[p])}
          /\ JobOf(pc', inputs') = [JobOf(pc, inputs) EXCEPT ![p] = {}]
      BY <2>2 DEF JobOf, Working, Reading
    <3> QED BY <1>2, <2>1, <3>1, <3>2 DEF Promise!End
  <2>4. CASE inputs[p] \notin WholeInputs \/ c \in MixedRecordings
    BY <2>2, <2>4 DEF ScoresMixed
  <2> QED BY <2>3, <2>4
<1>16. CASE ReadInputs(p)
  BY <1>7, <1>8, <1>9, <1>16 DEF ReadInputs
<1> QED BY <1>6, <1>10, <1>11, <1>12, <1>13, <1>14, <1>15, <1>16 DEF Step

\* Whatever crashes, full disks, other graders and edits of the corpus leave
\* in the file, a score whose reads of the corpus, and those of the recording
\* it plays, no edit has separated has compared every frame with the
\* reference's own, if no two recordings of one key differ in length: the
\* number of frames is compared nowhere (ref_cache.rs, load; main.rs,
\* grade_testcase).
THEOREM RefCacheImplementsLiveGrading ==
    ASSUME KeyFixesFrames PROVE Spec => ImplementsLiveGrading
<1>1. Init => Promise!Init
  BY DEF Init, Promise!Init, Unscored, Promise!Unscored, job
<1>2. CacheInv /\ CacheInv' /\ [Next]_vars
      => [Promise!Next \/ ScoresMixed]_<<job, verdict>>
  <2> SUFFICES ASSUME CacheInv, CacheInv', [Next]_vars
               PROVE  [Promise!Next \/ ScoresMixed]_<<job, verdict>>
    OBVIOUS
  <2>1. job = JobOf(pc, inputs) /\ job' = JobOf(pc', inputs')
    BY DEF job, JobOf, Working
  <2>2. CASE Edit \/ UNCHANGED vars
    BY <2>2 DEF Edit, vars, local, job
  <2>3. ASSUME NEW p \in Process, Step(p)
        PROVE  [Promise!Next \/ ScoresMixed]_<<job, verdict>>
    BY <2>1, <2>3, StepImplements DEF Promise!Next
  <2> QED BY <2>2, <2>3 DEF Next
<1> QED BY <1>1, <1>2, InitCacheInv, NextCacheInv, PTL
        DEF Spec, ImplementsLiveGrading

-----------------------------------------------------------------------------
(* One comparison: its guests *)

Keys == {0} \cup {KeysAt(n) : n \in Nat}
Slice == [keys : Keys, clean : BOOLEAN]
Guest == [keys : Keys, slices : Seq(Slice), sounded : Nat, AUDIO : Seq(Nat),
          fuel : BOOLEAN, fb_local : Seq(Slice)]
Ending == [whole : BOOLEAN, left : BOOLEAN]

Rising(s) == \A i, j \in DOMAIN s : i < j => s[i] < s[j]

\* What a guest is, whatever its calls came to.
WellFormed(g) ==
    /\ g \in Guest
    /\ g.sounded <= Len(g.slices)
    /\ \A i \in DOMAIN g.AUDIO : g.AUDIO[i] <= g.sounded
    /\ Rising(g.AUDIO)

\* What it is that none of its calls ended badly and that boot frames come first.
KeysHeld(i, boot) == IF i <= boot THEN 0 ELSE KeysAt(i - boot - 1)
Ran(g, boot) ==
    Clean(g) =>
        /\ g.fuel /\ g.sounded = Len(g.slices) /\ g.fb_local = g.slices
        /\ \A i \in DOMAIN g.slices : g.slices[i].keys = KeysHeld(i, boot)
Follows(g, boot) ==
    Ran(g, boot) /\ (Clean(g) => g.keys = KeysHeld(Len(g.slices), boot))

LEMMA LeastOfTwo ==
    ASSUME NEW a \in Nat, NEW b \in Nat
    PROVE  Min({a, b}) = IF a <= b THEN a ELSE b
BY DEF Min

LEMMA KeysAreKeys == \A n \in Nat : KeysAt(n) \in Keys
BY DEF Keys

\* A call that comes to its end.
LEMMA WholeCall ==
    ASSUME NEW g, WellFormed(g), NEW o \in Ending, o.whole
    PROVE  LET r == RunFrame(g, o) IN
           /\ WellFormed(r) /\ Len(r.slices) = Len(g.slices) + 1
           /\ \A i \in DOMAIN r.AUDIO : r.AUDIO[i] > g.sounded
           /\ g.sounded = Len(g.slices) => r.AUDIO = <<Len(r.slices)>>
           /\ r.fb_local = r.slices /\ r.sounded = Len(r.slices)
<1> DEFINE new == Append(g.slices, [keys |-> g.keys, clean |-> o.whole /\ o.left])
           late == SubSeq(new, g.sounded + 1, Len(new))
           n == Min({AUDIO_BUF, Len(late)})
           heard == [i \in 1 .. n |-> g.sounded + i]
           r == RunFrame(g, o)
<1>1. /\ g \in Guest /\ g.slices \in Seq(Slice) /\ Len(g.slices) \in Nat
      /\ g.sounded \in Nat /\ g.sounded <= Len(g.slices)
  BY DEF WellFormed, Guest
<1>2. new \in Seq(Slice) /\ Len(new) = Len(g.slices) + 1
  BY <1>1 DEF Slice, Guest, Ending
<1> HIDE DEF new
<1>3. Len(late) = Len(g.slices) + 1 - g.sounded
  BY <1>1, <1>2, SubSeqProperties
<1> HIDE DEF late
<1>4. n \in Nat /\ n <= Len(late) /\ (Len(late) = 1 => n = 1)
  BY <1>1, <1>3, LeastOfTwo, LockstepAssumption
<1> HIDE DEF n
<1>5. /\ heard \in Seq(Nat) /\ DOMAIN heard = 1 .. n
      /\ \A i \in 1 .. n : heard[i] = g.sounded + i
  BY <1>1, <1>4
<1>6. Len(late) = 1 => heard = <<g.sounded + 1>>
  <2> SUFFICES ASSUME Len(late) = 1 PROVE heard = <<g.sounded + 1>>
    OBVIOUS
  <2>1. heard = [i \in 1 .. 1 |-> g.sounded + i]
    BY <1>4
  <2> QED BY <2>1, <1>1
<1>7. Rising(heard) /\ \A i \in DOMAIN heard : heard[i] <= Len(new) /\ heard[i] > g.sounded
  <2>1. \A i \in 1 .. n : i \in Nat /\ g.sounded + i <= Len(new) /\ g.sounded + i > g.sounded
    BY <1>1, <1>2, <1>3, <1>4
  <2>2. \A i, j \in 1 .. n : i < j => g.sounded + i < g.sounded + j
    BY <1>1
  <2>3. Rising(heard)
    BY <1>5, <2>2 DEF Rising
  <2> QED BY <1>5, <2>1, <2>3
<1>8. r = [g EXCEPT !.slices = new, !.fuel = o.left, !.fb_local = new, !.sounded = Len(new),
                    !.AUDIO = heard]
  BY DEF RunFrame, new, late, n
<1> HIDE DEF heard, r
<1>9. /\ r.keys = g.keys /\ r.slices = new /\ r.fuel = o.left /\ r.fb_local = new
      /\ r.sounded = Len(new) /\ r.AUDIO = heard
  BY <1>1, <1>8 DEF Guest
<1>10. r \in Guest
  <2>1. o.left \in BOOLEAN /\ Len(new) \in Nat
    BY <1>1, <1>2 DEF Ending
  <2> QED BY <1>1, <1>2, <1>5, <1>8, <2>1 DEF Guest
<1>11. WellFormed(r)
  BY <1>1, <1>2, <1>7, <1>9, <1>10 DEF WellFormed
<1> QED BY <1>1, <1>2, <1>3, <1>6, <1>7, <1>9, <1>11 DEF r

LEMMA AnyCall ==
    ASSUME NEW g, WellFormed(g), NEW o \in Ending
    PROVE  LET r == RunFrame(g, o) IN
           /\ WellFormed(r) /\ r.sounded >= g.sounded /\ r.keys = g.keys
           /\ r.slices = Append(g.slices, [keys |-> g.keys, clean |-> o.whole /\ o.left])
           /\ r.AUDIO = g.AUDIO \/ \A i \in DOMAIN r.AUDIO : r.AUDIO[i] > g.sounded
<1> DEFINE slice == [keys |-> g.keys, clean |-> o.whole /\ o.left]
           new == Append(g.slices, slice)
           r == RunFrame(g, o)
<1>1. g \in Guest /\ g.slices \in Seq(Slice) /\ g.sounded \in Nat /\ g.sounded <= Len(g.slices)
  BY DEF WellFormed, Guest
<1>2. new \in Seq(Slice) /\ Len(new) = Len(g.slices) + 1
  BY <1>1 DEF Slice, Guest, Ending
<1>3. CASE o.whole
  <2>1. r.keys = g.keys /\ r.slices = new
    BY <1>1, <1>3 DEF RunFrame, Guest
  <2>2. /\ WellFormed(r) /\ Len(r.slices) = Len(g.slices) + 1 /\ r.sounded = Len(r.slices)
        /\ \A i \in DOMAIN r.AUDIO : r.AUDIO[i] > g.sounded
    BY <1>3, WholeCall
  <2> QED BY <1>1, <2>1, <2>2
<1>4. CASE ~o.whole
  <2> HIDE DEF new
  <2>1. r = [g EXCEPT !.slices = new, !.fuel = o.left]
    BY <1>4 DEF RunFrame, new
  <2>2. /\ r.keys = g.keys /\ r.slices = new /\ r.sounded = g.sounded /\ r.AUDIO = g.AUDIO
        /\ r \in Guest
    BY <1>1, <1>2, <2>1 DEF Guest, Ending
  <2>3. WellFormed(r)
    BY <1>1, <1>2, <2>2 DEF WellFormed
  <2> QED BY <1>1, <2>2, <2>3 DEF new
<1> QED BY <1>3, <1>4

LEMMA KeysSet ==
    ASSUME NEW g, WellFormed(g), NEW keys \in Keys
    PROVE  LET s == SetKeys(g, keys) IN
           /\ WellFormed(s) /\ s.slices = g.slices /\ s.sounded = g.sounded /\ s.AUDIO = g.AUDIO
           /\ s.fuel = g.fuel /\ s.fb_local = g.fb_local
           /\ g.fuel => s.keys = keys
BY DEF WellFormed, Guest, SetKeys

LEMMA BufferDrained ==
    ASSUME NEW g, WellFormed(g)
    PROVE  LET d == DrainAudio(g) IN
           /\ WellFormed(d) /\ d.slices = g.slices /\ d.sounded = g.sounded /\ d.keys = g.keys
           /\ d.fuel = g.fuel /\ d.fb_local = g.fb_local
           /\ Drained(g) \in Seq(Nat)
           /\ \/ d.AUDIO = g.AUDIO /\ Drained(g) = <<>>
              \/ d.AUDIO = <<>> /\ Drained(g) = g.AUDIO
<1>1. CASE g.fuel
  <2> DEFINE d == [g EXCEPT !.AUDIO = <<>>]
  <2>1. g \in Guest /\ <<>> \in Seq(Nat)
    BY DEF WellFormed
  <2>2. /\ d \in Guest /\ d.AUDIO = <<>> /\ d.slices = g.slices /\ d.sounded = g.sounded
        /\ d.keys = g.keys /\ d.fuel = g.fuel /\ d.fb_local = g.fb_local
    BY <2>1 DEF Guest
  <2>3. DOMAIN <<>> = {}
    OBVIOUS
  <2>4. WellFormed(d)
    BY <2>2, <2>3 DEF WellFormed, Rising
  <2>5. DrainAudio(g) = d /\ Drained(g) = g.AUDIO
    BY <1>1 DEF DrainAudio, Drained
  <2>6. g.AUDIO \in Seq(Nat)
    BY <2>1 DEF Guest
  <2> HIDE DEF d
  <2> QED BY <2>2, <2>4, <2>5, <2>6
<1>2. CASE ~g.fuel
  BY <1>2 DEF WellFormed, Guest, DrainAudio, Drained
<1> QED BY <1>1, <1>2

\* Only a guest all of whose calls ended well is clean.
LEMMA CleanCall ==
    ASSUME NEW g, WellFormed(g), NEW o \in Ending, Clean(RunFrame(g, o))
    PROVE  Clean(g) /\ o.whole /\ o.left
<1> DEFINE slice == [keys |-> g.keys, clean |-> o.whole /\ o.left]
           new == Append(g.slices, slice)
<1>1. g.slices \in Seq(Slice) /\ Len(g.slices) \in Nat
  BY DEF WellFormed, Guest
<1>2. RunFrame(g, o).slices = new
  BY AnyCall
<1>3. /\ Len(g.slices) + 1 \in DOMAIN new /\ new[Len(g.slices) + 1] = slice
      /\ \A i \in DOMAIN g.slices : i \in DOMAIN new /\ new[i] = g.slices[i]
  BY <1>1
<1> HIDE DEF new
<1>4. slice.clean
  BY <1>2, <1>3 DEF Clean
<1> QED BY <1>2, <1>3, <1>4 DEF Clean

LEMMA CallFollows ==
    ASSUME NEW g, WellFormed(g), NEW boot \in Nat, Ran(g, boot), NEW o \in Ending,
           Clean(g) => g.keys = KeysHeld(Len(g.slices) + 1, boot)
    PROVE  LET r == RunFrame(g, o) IN
           Follows(r, boot) /\ (Clean(r) => r.AUDIO = <<Len(r.slices)>>)
<1> DEFINE r == RunFrame(g, o)
           slice == [keys |-> g.keys, clean |-> o.whole /\ o.left]
<1> SUFFICES ASSUME Clean(r)
             PROVE  /\ r.fuel /\ r.sounded = Len(r.slices) /\ r.fb_local = r.slices
                    /\ r.keys = KeysHeld(Len(r.slices), boot)
                    /\ \A i \in DOMAIN r.slices : r.slices[i].keys = KeysHeld(i, boot)
                    /\ r.AUDIO = <<Len(r.slices)>>
  BY DEF Follows, Ran
<1>1. Clean(g) /\ o.whole /\ o.left
  BY CleanCall
<1>2. /\ g \in Guest /\ g.slices \in Seq(Slice) /\ Len(g.slices) \in Nat
      /\ g.sounded = Len(g.slices) /\ g.keys = KeysHeld(Len(g.slices) + 1, boot)
      /\ \A i \in DOMAIN g.slices : g.slices[i].keys = KeysHeld(i, boot)
  BY <1>1 DEF WellFormed, Guest, Ran
<1>3. /\ Len(r.slices) = Len(g.slices) + 1 /\ r.AUDIO = <<Len(r.slices)>>
      /\ r.fb_local = r.slices /\ r.sounded = Len(r.slices)
  BY <1>1, <1>2, WholeCall
<1>4. r.keys = g.keys /\ r.slices = Append(g.slices, slice)
  BY AnyCall
<1>5. r.fuel
  BY <1>1, <1>2 DEF RunFrame, Guest
<1>6. \A i \in DOMAIN r.slices : r.slices[i].keys = KeysHeld(i, boot)
  BY <1>2, <1>4
<1> QED BY <1>2, <1>3, <1>4, <1>5, <1>6

LEMMA DrainFollows ==
    ASSUME NEW g, WellFormed(g), NEW boot, Follows(g, boot)
    PROVE  Follows(DrainAudio(g), boot)
BY BufferDrained DEF Follows, Ran, Clean

\* A boot frame, its samples discarded or left.
LEMMA BootCall ==
    ASSUME NEW g, WellFormed(g), NEW boot \in Nat, Follows(g, boot), Len(g.slices) < boot,
           NEW o \in Ending
    PROVE  \A b \in {RunFrame(g, o), Boot(g, o)} :
               WellFormed(b) /\ Follows(b, boot) /\ Len(b.slices) = Len(g.slices) + 1
<1>1. g.slices \in Seq(Slice) /\ Len(g.slices) \in Nat
  BY DEF WellFormed, Guest
<1>2. Clean(g) => g.keys = KeysHeld(Len(g.slices) + 1, boot)
  BY <1>1 DEF Follows, KeysHeld
<1> DEFINE r == RunFrame(g, o)
<1>3. /\ WellFormed(r) /\ Follows(r, boot)
      /\ r.slices = Append(g.slices, [keys |-> g.keys, clean |-> o.whole /\ o.left])
  BY <1>2, AnyCall, CallFollows DEF Follows
<1>5. Len(r.slices) = Len(g.slices) + 1
  BY <1>1, <1>3
<1> HIDE DEF r
<1>4. /\ WellFormed(DrainAudio(r)) /\ Follows(DrainAudio(r), boot)
      /\ DrainAudio(r).slices = r.slices
  BY <1>3, BufferDrained, DrainFollows
<1> QED BY <1>3, <1>4, <1>5 DEF r, Boot

\* A frame of the test case, before its samples are taken.
LEMMA FrameCall ==
    ASSUME NEW g, WellFormed(g), NEW boot \in Nat, Follows(g, boot), NEW n \in Nat,
           Len(g.slices) = boot + n, NEW o \in Ending
    PROVE  LET f == Frame(g, n, o) IN
           /\ WellFormed(f) /\ Follows(f, boot) /\ Len(f.slices) = boot + n + 1
           /\ Clean(f) => f.fuel /\ f.AUDIO = <<Len(f.slices)>>
           /\ f.sounded >= g.sounded
           /\ f.AUDIO = g.AUDIO \/ \A i \in DOMAIN f.AUDIO : f.AUDIO[i] > g.sounded
<1> DEFINE s == SetKeys(g, KeysAt(n))
<1>1. g.slices \in Seq(Slice) /\ Len(g.slices) \in Nat /\ KeysAt(n) \in Keys
  BY KeysAreKeys DEF WellFormed, Guest
<1>2. /\ WellFormed(s) /\ s.slices = g.slices /\ s.sounded = g.sounded /\ s.AUDIO = g.AUDIO
      /\ s.fuel = g.fuel /\ s.fb_local = g.fb_local /\ (g.fuel => s.keys = KeysAt(n))
  BY <1>1, KeysSet
<1> HIDE DEF s
<1>3. Ran(s, boot) /\ (Clean(s) => s.keys = KeysAt(n))
  BY <1>2 DEF Clean, Follows, Ran
<1>4. KeysHeld(boot + n + 1, boot) = KeysAt(n)
  BY DEF KeysHeld
<1> DEFINE f == RunFrame(s, o)
<1>5. /\ WellFormed(f) /\ f.sounded >= s.sounded
      /\ f.slices = Append(s.slices, [keys |-> s.keys, clean |-> o.whole /\ o.left])
      /\ f.AUDIO = s.AUDIO \/ \A i \in DOMAIN f.AUDIO : f.AUDIO[i] > s.sounded
  BY <1>2, AnyCall
<1>6. Follows(f, boot) /\ (Clean(f) => f.AUDIO = <<Len(f.slices)>>)
  BY <1>1, <1>2, <1>3, <1>4, CallFollows
<1> HIDE DEF f
<1>7. Len(f.slices) = boot + n + 1
  BY <1>1, <1>2, <1>5
<1>8. Frame(g, n, o) = f
  BY DEF Frame, f, s
<1> QED BY <1>2, <1>5, <1>6, <1>7, <1>8 DEF Follows, Ran

LEMMA NewGuestWellFormed ==
    ASSUME NEW boot \in Nat
    PROVE  WellFormed(NewGuest) /\ Follows(NewGuest, boot) /\ Len(NewGuest.slices) = 0
<1>1. <<>> \in Seq(Nat) /\ <<>> \in Seq(Slice) /\ DOMAIN <<>> = {} /\ Len(<<>>) = 0
  OBVIOUS
<1>2. NewGuest \in Guest
  BY <1>1 DEF NewGuest, Guest, Keys
<1> QED BY <1>1, <1>2 DEF NewGuest, WellFormed, Rising, Follows, Ran, KeysHeld, Clean

-----------------------------------------------------------------------------
(* The candidate's side of the invariant *)

candidate_boot == candidate_boot_frames + CandBoot

CandInv ==
    /\ phase \in {"record", "boot", "lockstep", "scored"}
    /\ frame \in Nat /\ frame <= Frames
    /\ phase \in {"record", "boot"} =>
          Len(cand.slices) <= candidate_boot /\ cand_audio = <<>>
    /\ phase = "boot" => frame = 0
    /\ phase \in {"lockstep", "scored"} => Len(cand.slices) = candidate_boot + frame
    /\ WellFormed(cand) /\ Follows(cand, candidate_boot)
    /\ cand_audio \in Seq(Nat) /\ SamplesOnce
    /\ \A i \in DOMAIN cand_audio : cand_audio[i] <= cand.sounded
    /\ \A i \in DOMAIN cand_audio, j \in DOMAIN cand.AUDIO : cand_audio[i] < cand.AUDIO[j]

\* What depends on the replay alone.
LEMMA SameReplay ==
    ASSUME replay' = replay
    PROVE  /\ Guest' = Guest /\ Slice' = Slice
           /\ \A n : KeysAt(n)' = KeysAt(n)
           /\ \A i, boot : KeysHeld(i, boot)' = KeysHeld(i, boot)
<1>1. \A n : KeysAt(n)' = KeysAt(n)
  BY DEF KeysAt
<1>2. \A i, boot : KeysHeld(i, boot)' = KeysHeld(i, boot)
  BY <1>1 DEF KeysHeld
<1>3. Keys' = Keys
  BY <1>1 DEF Keys
<1> QED BY <1>1, <1>2, <1>3 DEF Guest, Slice

LEMMA InitCandInv == LockstepInit => CandInv
<1> SUFFICES ASSUME LockstepInit PROVE CandInv
  OBVIOUS
<1>1. candidate_boot \in Nat /\ Frames \in Nat
  BY LockstepAssumption DEF candidate_boot
<1>2. cand_audio \in Seq(Nat) /\ DOMAIN cand_audio = {}
  BY DEF LockstepInit
<1>3. WellFormed(cand) /\ Follows(cand, candidate_boot) /\ Len(cand.slices) = 0
  BY <1>1, NewGuestWellFormed DEF LockstepInit
<1> QED BY <1>1, <1>2, <1>3 DEF LockstepInit, CandInv, SamplesOnce

LEMMA BootCandInv ==
    ASSUME CandInv, NEW outcome \in Outcome, ConfiguredBoot(outcome) \/ LockstepBoot(outcome)
    PROVE  CandInv'
<1>1. /\ outcome \in Ending /\ candidate_boot \in Nat
      /\ candidate_boot_frames \in Nat /\ CandBoot \in Nat
  BY LockstepAssumption DEF Ending, candidate_boot
<1>2. /\ phase = "boot" /\ frame = 0 /\ phase' = phase /\ frame' = frame
      /\ cand_audio' = cand_audio /\ replay' = replay
      /\ cand' \in {RunFrame(cand, outcome), Boot(cand, outcome)}
  <2>1. CASE ConfiguredBoot(outcome)
    BY <2>1 DEF ConfiguredBoot, CandInv
  <2>2. CASE LockstepBoot(outcome)
    BY <2>2 DEF LockstepBoot, CandInv
  <2> QED BY <2>1, <2>2
<1>3. /\ WellFormed(cand) /\ Follows(cand, candidate_boot) /\ cand.slices \in Seq(Slice)
      /\ Len(cand.slices) \in Nat /\ cand_audio = <<>> /\ Frames \in Nat
  BY <1>2, LockstepAssumption DEF CandInv, WellFormed, Guest
<1>4. Len(cand.slices) < candidate_boot
  BY <1>1, <1>3 DEF ConfiguredBoot, LockstepBoot, candidate_boot
<1>5. PICK c \in {RunFrame(cand, outcome), Boot(cand, outcome)} : cand' = c
  BY <1>2
<1>6. WellFormed(c) /\ Follows(c, candidate_boot) /\ Len(c.slices) = Len(cand.slices) + 1
  BY <1>1, <1>3, <1>4, BootCall
<1>7. WellFormed(cand)' /\ Follows(cand, candidate_boot)'
  BY <1>2, <1>5, <1>6, SameReplay DEF WellFormed, Follows, Ran, Clean, Rising
<1>8. Len(cand'.slices) <= candidate_boot /\ DOMAIN cand_audio = {}
  BY <1>1, <1>3, <1>4, <1>5, <1>6
<1> QED BY <1>2, <1>3, <1>7, <1>8 DEF CandInv, SamplesOnce, candidate_boot

LEMMA CompareCandInv ==
    ASSUME CandInv, NEW outcome \in Outcome, Compare(outcome)
    PROVE  CandInv'
<1> DEFINE f == Frame(cand, frame, outcome)
           d == DrainAudio(f)
<1>1. /\ outcome \in Ending /\ candidate_boot \in Nat /\ Frames \in Nat
      /\ phase = "lockstep" /\ frame < Frames /\ phase' = phase /\ frame' = frame + 1
      /\ cand_audio' = cand_audio \o Drained(f) /\ cand' = d /\ replay' = replay
  BY LockstepAssumption DEF Ending, candidate_boot, Compare
<1>2. /\ WellFormed(cand) /\ Follows(cand, candidate_boot) /\ frame \in Nat
      /\ Len(cand.slices) = candidate_boot + frame /\ cand_audio \in Seq(Nat)
      /\ \A i \in DOMAIN cand_audio : cand_audio[i] <= cand.sounded
      /\ \A i \in DOMAIN cand_audio, j \in DOMAIN cand.AUDIO : cand_audio[i] < cand.AUDIO[j]
      /\ \A i, j \in DOMAIN cand_audio : i < j => cand_audio[i] < cand_audio[j]
  BY <1>1 DEF CandInv, SamplesOnce
<1>3. /\ WellFormed(f) /\ Follows(f, candidate_boot) /\ Len(f.slices) = candidate_boot + frame + 1
      /\ f.sounded >= cand.sounded
      /\ f.AUDIO = cand.AUDIO \/ \A i \in DOMAIN f.AUDIO : f.AUDIO[i] > cand.sounded
  <2>1. /\ WellFormed(cand) /\ Follows(cand, candidate_boot) /\ frame \in Nat
        /\ Len(cand.slices) = candidate_boot + frame
    BY <1>2
  <2> HIDE DEF f
  <2>2. f = Frame(cand, frame, outcome)
    BY DEF f
  <2> QED BY <1>1, <2>1, <2>2, FrameCall
<1> HIDE DEF f
<1>4. /\ f.sounded \in Nat /\ cand.sounded \in Nat /\ f.AUDIO \in Seq(Nat)
      /\ \A i \in DOMAIN f.AUDIO : f.AUDIO[i] \in Nat /\ f.AUDIO[i] <= f.sounded
      /\ \A i, j \in DOMAIN f.AUDIO : i < j => f.AUDIO[i] < f.AUDIO[j]
  BY <1>2, <1>3 DEF WellFormed, Guest, Rising
<1>5. \A i \in DOMAIN cand_audio, j \in DOMAIN f.AUDIO : cand_audio[i] < f.AUDIO[j]
  BY <1>2, <1>3, <1>4
<1>6. \A i \in DOMAIN cand_audio : cand_audio[i] <= f.sounded
  BY <1>2, <1>3, <1>4
<1>7. /\ WellFormed(d) /\ Follows(d, candidate_boot) /\ d.slices = f.slices /\ d.sounded = f.sounded
      /\ \/ d.AUDIO = f.AUDIO /\ Drained(f) = <<>>
         \/ d.AUDIO = <<>> /\ Drained(f) = f.AUDIO
  BY <1>3, BufferDrained, DrainFollows
<1> HIDE DEF d
<1>8. WellFormed(cand)' /\ Follows(cand, candidate_boot)'
  BY <1>1, <1>7, SameReplay DEF WellFormed, Follows, Ran, Clean, Rising, candidate_boot
<1>9. /\ cand_audio' \in Seq(Nat)
      /\ \A i \in DOMAIN cand_audio' : cand_audio'[i] <= f.sounded
      /\ \A i, j \in DOMAIN cand_audio' : i < j => cand_audio'[i] < cand_audio'[j]
      /\ \A i \in DOMAIN cand_audio', j \in DOMAIN d.AUDIO : cand_audio'[i] < d.AUDIO[j]
  <2>1. CASE d.AUDIO = f.AUDIO /\ Drained(f) = <<>>
    <3>1. cand_audio' = cand_audio
      BY <1>1, <1>2, <2>1
    <3> QED BY <1>2, <1>5, <1>6, <2>1, <3>1
  <2>2. CASE d.AUDIO = <<>> /\ Drained(f) = f.AUDIO
    <3>1. cand_audio' = cand_audio \o f.AUDIO
      BY <1>1, <2>2
    <3>2. DOMAIN d.AUDIO = {} /\ cand_audio' \in Seq(Nat)
      BY <1>2, <1>4, <2>2, <3>1
    <3>3. \A i \in DOMAIN cand_audio' :
             \/ i \in DOMAIN cand_audio /\ cand_audio'[i] = cand_audio[i]
             \/ /\ i > Len(cand_audio) /\ i - Len(cand_audio) \in DOMAIN f.AUDIO
                /\ cand_audio'[i] = f.AUDIO[i - Len(cand_audio)]
      BY <1>2, <1>4, <3>1
    <3>4. \A i \in DOMAIN cand_audio' : cand_audio'[i] <= f.sounded
      BY <1>4, <1>6, <3>3
    <3>5. ASSUME NEW i \in DOMAIN cand_audio', NEW j \in DOMAIN cand_audio', i < j
          PROVE  cand_audio'[i] < cand_audio'[j]
      <4>1. i \in Nat /\ j \in Nat /\ Len(cand_audio) \in Nat
            /\ DOMAIN cand_audio = 1 .. Len(cand_audio)
        BY <1>2, <3>2
      <4>2. CASE j \in DOMAIN cand_audio
        BY <1>2, <3>3, <3>5, <4>1, <4>2
      <4>3. CASE i \in DOMAIN cand_audio /\ j \notin DOMAIN cand_audio
        BY <1>5, <3>3, <3>5, <4>1, <4>3
      <4>4. CASE i \notin DOMAIN cand_audio /\ j \notin DOMAIN cand_audio
        BY <1>4, <3>3, <3>5, <4>1, <4>4
      <4>5. j \notin DOMAIN cand_audio \/ i \in DOMAIN cand_audio
        BY <3>5, <4>1
      <4> QED BY <4>2, <4>3, <4>4, <4>5
    <3> QED BY <3>2, <3>4, <3>5
  <2> QED BY <1>7, <2>1, <2>2
<1>10. Len(cand'.slices) = candidate_boot + frame' /\ frame' \in Nat /\ frame' <= Frames
  BY <1>1, <1>2, <1>3, <1>7
<1> QED BY <1>1, <1>7, <1>8, <1>9, <1>10 DEF CandInv, SamplesOnce, candidate_boot

LEMMA NextCandInv ==
    ASSUME CandInv, [LockstepNext]_lockstepVars PROVE CandInv'
<1>1. Frames \in Nat
  BY LockstepAssumption
<1>2. ASSUME replay' = replay, cand' = cand, cand_audio' = cand_audio, frame' \in Nat,
             frame' <= Frames, phase' \in {"record", "boot", "lockstep", "scored"},
             phase' \in {"record", "boot"} => phase \in {"record", "boot"},
             phase' = "boot" => frame' = 0,
             phase' \in {"lockstep", "scored"} => Len(cand.slices) = candidate_boot + frame'
      PROVE  CandInv'
  BY <1>2, SameReplay
     DEF CandInv, SamplesOnce, WellFormed, Follows, Ran, Clean, Rising, candidate_boot
<1>3. CASE RecordBoot \/ LiveBoot \/ UNCHANGED lockstepVars
  BY <1>2, <1>3 DEF RecordBoot, LiveBoot, lockstepVars, guests, CandInv
<1>4. CASE RecordFrame
  <2>1. frame' \in Nat /\ frame' <= Frames
    BY <1>1, <1>4 DEF RecordFrame, CandInv
  <2> QED BY <1>2, <1>4, <2>1 DEF RecordFrame
<1>5. CASE Grade \/ ScoreLockstep
  BY <1>1, <1>2, <1>5 DEF Grade, ScoreLockstep, guests, CandInv
<1>6. CASE StartLockstep
  <2>1. candidate_boot \in Nat /\ frame = 0 /\ Len(cand.slices) = candidate_boot
    BY <1>6, LockstepAssumption DEF StartLockstep, CandInv, candidate_boot
  <2>2. Len(cand.slices) = candidate_boot + frame
    BY <2>1
  <2> QED BY <1>2, <1>6, <2>2 DEF StartLockstep, guests, CandInv
<1>7. ASSUME NEW outcome \in Outcome,
             ConfiguredBoot(outcome) \/ LockstepBoot(outcome) \/ Compare(outcome)
      PROVE  CandInv'
  BY <1>7, BootCandInv, CompareCandInv
<1> QED BY <1>3, <1>4, <1>5, <1>6, <1>7 DEF LockstepNext

\* No sample of the candidate is heard twice or out of order, whatever its
\* calls come to and for any boot frames and size of the buffer
\* (wasm_candidate.rs, drain_audio; the shim's AUDIO_PAIRS).
THEOREM LockstepSamplesOnce == LockstepSpec => []SamplesOnce
<1>1. CandInv => SamplesOnce
  BY DEF CandInv
<1> QED BY <1>1, InitCandInv, NextCandInv, PTL DEF LockstepSpec

-----------------------------------------------------------------------------
(* The reference's side: its recording and the live one *)

\* The frame a reference shows after its boot frames, and its next state.
Shown(g, n) == Frame(g, n - RefBoot, outcomes[n + 1])
After(g, n) == IF n < RefBoot THEN Boot(g, outcomes[n + 1]) ELSE DrainAudio(Shown(g, n))

\* p[n] is the recorded reference after n calls, the samples of frame k of the
\* test case begin behind off[k].
RecallsFrame(p, off, k) ==
    LET ran == Shown(p[RefBoot + k], RefBoot + k)
    IN  /\ cache.frames[k + 1] = ran.fb_local
        /\ cache.samples_per_frame[k + 1] = Len(Drained(ran))
        /\ off[k + 1] = off[k] + Len(Drained(ran))
        /\ off[k + 1] <= Len(cache.audio)
        /\ SubSeq(cache.audio, off[k] + 1, off[k + 1]) = Drained(ran)
Recalls(p, off) ==
    /\ p[0] = NewGuest /\ p[Len(ref.slices)] = ref
    /\ \A n \in 0 .. Len(ref.slices) - 1 : p[n + 1] = After(p[n], n)
    /\ off \in [0 .. Len(cache.frames) -> Nat]
    /\ off[0] = 0 /\ off[Len(cache.frames)] = Len(cache.audio)
    /\ \A k \in 0 .. Len(cache.frames) - 1 : RecallsFrame(p, off, k)

\* The live reference is one of those states, the playback at its frame.
Plays(p, off) ==
    /\ p[Len(live.slices)] = live
    /\ offset = IF phase \in {"lockstep", "scored"} THEN off[frame] ELSE 0

Recorder ==
    /\ outcomes \in [1 .. RefBoot + Frames -> Ending]
    /\ WellFormed(ref) /\ Follows(ref, RefBoot) /\ WellFormed(live) /\ Follows(live, RefBoot)
    /\ cache \in [frames : Seq(Seq(Slice)), samples_per_frame : Seq(Nat), audio : Seq(Nat)]
    /\ Len(cache.samples_per_frame) = Len(cache.frames)

Progress ==
    /\ phase \in {"record", "boot", "lockstep", "scored"}
    /\ frame \in Nat /\ frame <= Frames
    /\ phase = "record" =>
          /\ live = NewGuest /\ frame = Len(cache.frames)
          /\ \/ Len(ref.slices) = RefBoot + frame
             \/ frame = 0 /\ Len(ref.slices) < RefBoot
    /\ phase # "record" => Len(cache.frames) = Frames /\ Len(ref.slices) = RefBoot + Frames
    /\ phase = "boot" => frame = 0 /\ Len(live.slices) <= RefBoot
    /\ phase \in {"lockstep", "scored"} => Len(live.slices) = RefBoot + frame
    /\ cursor = IF phase \in {"lockstep", "scored"} THEN frame - 1 ELSE -1

RefInv ==
    /\ Recorder /\ Progress
    /\ \E p, off : Recalls(p, off) /\ Plays(p, off)
    /\ seen.cached = seen.live

LEMMA SameOutcomes ==
    ASSUME replay' = replay, outcomes' = outcomes
    PROVE  \A g, n : Shown(g, n)' = Shown(g, n) /\ After(g, n)' = After(g, n)
<1>1. \A n : KeysAt(n)' = KeysAt(n)
  BY SameReplay
<1>2. \A g, o : RunFrame(g, o)' = RunFrame(g, o)
  BY DEF RunFrame
<1>3. \A g, k : SetKeys(g, k)' = SetKeys(g, k)
  BY DEF SetKeys
<1>4. \A g : DrainAudio(g)' = DrainAudio(g)
  BY DEF DrainAudio
<1>5. ASSUME NEW g, NEW n PROVE Shown(g, n)' = Shown(g, n)
  <2>1. Frame(g, n - RefBoot, outcomes[n + 1])' = Frame(g, n - RefBoot, outcomes[n + 1])
    BY <1>1, <1>2, <1>3, Zenon DEF Frame
  <2> QED BY <2>1 DEF Shown
<1>6. ASSUME NEW g, NEW n PROVE After(g, n)' = After(g, n)
  <2>1. Boot(g, outcomes[n + 1])' = Boot(g, outcomes[n + 1])
    BY <1>2, <1>4, Zenon DEF Boot
  <2> QED BY <1>4, <1>5, <2>1, Zenon DEF After
<1> QED BY <1>5, <1>6

LEMMA RefConstants ==
    /\ RefBoot \in Nat /\ Frames \in Nat
    /\ \A o \in RefOutcomes : o \in [1 .. RefBoot + Frames -> Ending]
BY LockstepAssumption DEF Ending

LEMMA InitRefInv == LockstepInit => RefInv
<1> SUFFICES ASSUME LockstepInit PROVE RefInv
  OBVIOUS
<1>1. /\ WellFormed(ref) /\ Follows(ref, RefBoot) /\ WellFormed(live) /\ Follows(live, RefBoot)
      /\ Len(ref.slices) = 0 /\ Len(live.slices) = 0 /\ ref = NewGuest /\ live = NewGuest
  BY RefConstants, NewGuestWellFormed DEF LockstepInit
<1>2. /\ cache \in [frames : Seq(Seq(Slice)), samples_per_frame : Seq(Nat), audio : Seq(Nat)]
      /\ Len(cache.samples_per_frame) = 0 /\ Len(cache.frames) = 0 /\ Len(cache.audio) = 0
  BY DEF LockstepInit, Nothing
<1>3. Recorder
  BY <1>1, <1>2, RefConstants DEF LockstepInit, Recorder
<1>4. Progress
  BY <1>1, <1>2, RefConstants DEF LockstepInit, Progress
<1>5. \E p, off : Recalls(p, off) /\ Plays(p, off)
  <2> DEFINE p == [n \in {0} |-> NewGuest]
             off == [k \in 0 .. 0 |-> 0]
  <2>1. p[0] = NewGuest /\ off \in [0 .. 0 -> Nat] /\ off[0] = 0
    OBVIOUS
  <2> HIDE DEF p, off
  <2>2. Recalls(p, off)
    BY <1>1, <1>2, <2>1 DEF Recalls
  <2>3. Plays(p, off)
    BY <1>1, <2>1 DEF Plays, LockstepInit
  <2> QED BY <2>2, <2>3
<1>6. seen.cached = seen.live
  BY DEF LockstepInit
<1> QED BY <1>3, <1>4, <1>5, <1>6 DEF RefInv

LEMMA RecordBootRefInv ==
    ASSUME RefInv, RecordBoot PROVE RefInv'
<1> DEFINE n == Len(ref.slices)
           o == outcomes[n + 1]
<1>1. /\ phase = "record" /\ n < RefBoot /\ replay' = replay /\ outcomes' = outcomes
      /\ phase' = phase /\ live' = live /\ cache' = cache /\ cursor' = cursor
      /\ offset' = offset /\ frame' = frame /\ seen' = seen /\ ref' = Boot(ref, o)
  BY DEF RecordBoot
<1>2. Recorder /\ Progress /\ seen.cached = seen.live
  BY DEF RefInv
<1>3. PICK p, off : Recalls(p, off) /\ Plays(p, off)
  BY DEF RefInv
<1>4. ref.slices \in Seq(Slice) /\ n \in Nat /\ RefBoot \in Nat /\ Frames \in Nat
  BY <1>2, RefConstants DEF Recorder, WellFormed, Guest
<1>5. o \in Ending
  BY <1>1, <1>2, <1>4 DEF Recorder
<1>6. /\ WellFormed(ref) /\ Follows(ref, RefBoot) /\ WellFormed(live) /\ Follows(live, RefBoot)
      /\ live = NewGuest /\ Len(cache.frames) = 0 /\ frame = 0
      /\ cache \in [frames : Seq(Seq(Slice)), samples_per_frame : Seq(Nat), audio : Seq(Nat)]
      /\ Len(cache.samples_per_frame) = Len(cache.frames)
      /\ outcomes \in [1 .. RefBoot + Frames -> Ending]
  BY <1>1, <1>2, <1>4 DEF Recorder, Progress
<1>7. PICK b : b = Boot(ref, o)
  OBVIOUS
<1>8. WellFormed(b) /\ Follows(b, RefBoot) /\ Len(b.slices) = n + 1
  BY <1>1, <1>4, <1>5, <1>6, <1>7, BootCall
<1>9. Recorder'
  <2>1. WellFormed(ref)' /\ Follows(ref, RefBoot)'
    BY <1>1, <1>7, <1>8, SameReplay DEF WellFormed, Follows, Ran, Clean, Rising
  <2>2. WellFormed(live)' /\ Follows(live, RefBoot)'
    BY <1>1, <1>6, SameReplay DEF WellFormed, Follows, Ran, Clean, Rising
  <2>3. Slice' = Slice /\ Ending' = Ending
    BY <1>1, SameReplay DEF Ending
  <2> QED BY <1>1, <1>6, <2>1, <2>2, <2>3 DEF Recorder
<1>10. Progress'
  BY <1>1, <1>2, <1>4, <1>6, <1>7, <1>8 DEF Progress
<1>11. PICK q : q = [m \in 0 .. n + 1 |-> IF m <= n THEN p[m] ELSE b]
  OBVIOUS
<1>12. q[n + 1] = b /\ \A m \in 0 .. n : q[m] = p[m]
  BY <1>4, <1>11
<1>13. /\ p[0] = NewGuest /\ p[n] = ref /\ \A m \in 0 .. n - 1 : p[m + 1] = After(p[m], m)
       /\ off \in [0 .. Len(cache.frames) -> Nat] /\ off[0] = 0
       /\ off[Len(cache.frames)] = Len(cache.audio)
  BY <1>3 DEF Recalls
<1>14. b = After(ref, n)
  BY <1>1, <1>7 DEF After
<1>15. \A m \in 0 .. n : q[m + 1] = After(q[m], m)
  <2> SUFFICES ASSUME NEW m \in 0 .. n PROVE q[m + 1] = After(q[m], m)
    OBVIOUS
  <2>1. CASE m = n
    BY <1>4, <1>12, <1>13, <1>14, <2>1
  <2>2. CASE m < n
    BY <1>4, <1>12, <1>13, <2>2
  <2> QED BY <1>4, <2>1, <2>2
<1>16. Recalls(q, off)'
  <2>1. Len(ref'.slices) = n + 1 /\ ref' = b /\ q[0] = NewGuest
    BY <1>1, <1>4, <1>7, <1>8, <1>12, <1>13
  <2>2. NewGuest' = NewGuest
    BY DEF NewGuest
  <2> HIDE DEF n
  <2>3. \A m \in 0 .. n + 1 - 1 : q[m + 1] = After(q[m], m)'
    BY <1>1, <1>4, <1>15, SameOutcomes
  <2> QED BY <1>1, <1>4, <1>6, <1>12, <1>13, <2>1, <2>2, <2>3 DEF Recalls
<1>17. Plays(q, off)'
  BY <1>1, <1>3, <1>4, <1>6, <1>12, <1>13, NewGuestWellFormed DEF Plays
<1> QED BY <1>1, <1>2, <1>9, <1>10, <1>16, <1>17 DEF RefInv

\* A recording only grows behind what it holds.
LEMMA AudioGrows ==
    ASSUME NEW a \in Seq(Nat), NEW b \in Seq(Nat)
    PROVE  /\ a \o b \in Seq(Nat) /\ Len(a \o b) = Len(a) + Len(b)
           /\ SubSeq(a \o b, Len(a) + 1, Len(a) + Len(b)) = b
           /\ \A m, n \in Nat : n <= Len(a) => SubSeq(a \o b, m + 1, n) = SubSeq(a, m + 1, n)
<1>1. /\ a \o b \in Seq(Nat) /\ Len(a \o b) = Len(a) + Len(b)
      /\ \A i \in 1 .. Len(a) : (a \o b)[i] = a[i]
      /\ \A i \in 1 .. Len(b) : (a \o b)[Len(a) + i] = b[i]
      /\ Len(a) \in Nat /\ Len(b) \in Nat
  OBVIOUS
<1>2. PICK c \in Seq(Nat) : c = a \o b
  BY <1>1
<1>3. ASSUME NEW m \in Nat, NEW n \in Nat, n <= Len(a)
      PROVE  SubSeq(c, m + 1, n) = SubSeq(a, m + 1, n)
  <2>1. \A i \in m + 1 .. n : a[i] \in Nat /\ c[i] = a[i]
    BY <1>1, <1>2, <1>3
  <2>2. /\ SubSeq(c, m + 1, n) \in Seq(Nat) /\ SubSeq(a, m + 1, n) \in Seq(Nat)
        /\ Len(SubSeq(c, m + 1, n)) = Len(SubSeq(a, m + 1, n))
        /\ Len(SubSeq(c, m + 1, n)) = IF m + 1 <= n THEN n - (m + 1) + 1 ELSE 0
        /\ \A i \in 1 .. n - (m + 1) + 1 : SubSeq(c, m + 1, n)[i] = c[m + 1 + i - 1]
                                    /\ SubSeq(a, m + 1, n)[i] = a[m + 1 + i - 1]
    <3>1. m + 1 \in Int /\ n \in Int
      OBVIOUS
    <3>2. \A i \in m + 1 .. n : c[i] \in Nat
      BY <2>1
    <3>3. \A i \in m + 1 .. n : a[i] \in Nat
      BY <2>1
    <3>4. /\ SubSeq(c, m + 1, n) \in Seq(Nat)
          /\ Len(SubSeq(c, m + 1, n)) = IF m + 1 <= n THEN n - (m + 1) + 1 ELSE 0
          /\ \A i \in 1 .. n - (m + 1) + 1 : SubSeq(c, m + 1, n)[i] = c[m + 1 + i - 1]
      BY <3>1, <3>2, SubSeqProperties
    <3>5. /\ SubSeq(a, m + 1, n) \in Seq(Nat)
          /\ Len(SubSeq(a, m + 1, n)) = IF m + 1 <= n THEN n - (m + 1) + 1 ELSE 0
          /\ \A i \in 1 .. n - (m + 1) + 1 : SubSeq(a, m + 1, n)[i] = a[m + 1 + i - 1]
      BY <3>1, <3>3, SubSeqProperties
    <3> QED BY <3>4, <3>5
  <2>3. ASSUME NEW i \in 1 .. Len(SubSeq(c, m + 1, n))
        PROVE  SubSeq(c, m + 1, n)[i] = SubSeq(a, m + 1, n)[i]
    <3>1. i \in 1 .. n - (m + 1) + 1 /\ m + 1 + i - 1 \in m + 1 .. n
      BY <2>2
    <3> QED BY <2>1, <2>2, <3>1
  <2> QED BY <2>2, <2>3, SeqEqual
<1>4. SubSeq(c, Len(a) + 1, Len(a) + Len(b)) = b
  <2> DEFINE s == SubSeq(c, Len(a) + 1, Len(a) + Len(b))
  <2>1. \A i \in Len(a) + 1 .. Len(a) + Len(b) : c[i] \in Nat
    BY <1>1, <1>2
  <2>2. /\ s \in Seq(Nat)
        /\ Len(s) = IF Len(a) + 1 <= Len(a) + Len(b) THEN Len(a) + Len(b) - (Len(a) + 1) + 1 ELSE 0
        /\ \A i \in 1 .. Len(a) + Len(b) - (Len(a) + 1) + 1 : s[i] = c[Len(a) + 1 + i - 1]
    BY <1>1, <2>1, SubSeqProperties
  <2>3. Len(s) = Len(b)
    BY <1>1, <2>2
  <2>4. \A i \in 1 .. Len(b) : s[i] = b[i]
    <3> SUFFICES ASSUME NEW i \in 1 .. Len(b) PROVE s[i] = b[i]
      OBVIOUS
    <3>1. i \in 1 .. Len(a) + Len(b) - (Len(a) + 1) + 1 /\ Len(a) + 1 + i - 1 = Len(a) + i
      BY <1>1
    <3> QED BY <1>1, <1>2, <2>2, <3>1
  <2> HIDE DEF s
  <2> QED BY <2>2, <2>3, <2>4, SeqEqual DEF s
<1> QED BY <1>1, <1>2, <1>3, <1>4

LEMMA RecordFrameRefInv ==
    ASSUME RefInv, RecordFrame PROVE RefInv'
<1> DEFINE n == Len(ref.slices)
           o == outcomes[n + 1]
<1>1. /\ phase = "record" /\ n >= RefBoot /\ frame < Frames
      /\ replay' = replay /\ outcomes' = outcomes
      /\ phase' = phase /\ live' = live /\ cursor' = cursor
      /\ offset' = offset /\ frame' = frame + 1 /\ seen' = seen
      /\ ref' = DrainAudio(Frame(ref, frame, o)) /\ cache' = Record(Frame(ref, frame, o))
  BY DEF RecordFrame
<1>2. Recorder /\ Progress /\ seen.cached = seen.live
  BY DEF RefInv
<1>3. PICK p, off : Recalls(p, off) /\ Plays(p, off)
  BY DEF RefInv
<1>4. /\ ref.slices \in Seq(Slice) /\ n \in Nat /\ RefBoot \in Nat /\ Frames \in Nat
      /\ frame \in Nat
  BY <1>2, RefConstants DEF Recorder, Progress, WellFormed, Guest
<1>5. n = RefBoot + frame /\ n - RefBoot = frame
  BY <1>1, <1>2, <1>4 DEF Progress
<1>6. o \in Ending
  <2>1. n + 1 \in 1 .. RefBoot + Frames
    BY <1>1, <1>4, <1>5
  <2> QED BY <1>2, <2>1 DEF Recorder
<1>7. /\ WellFormed(ref) /\ Follows(ref, RefBoot) /\ WellFormed(live) /\ Follows(live, RefBoot)
      /\ live = NewGuest /\ frame = Len(cache.frames)
      /\ cache \in [frames : Seq(Seq(Slice)), samples_per_frame : Seq(Nat), audio : Seq(Nat)]
      /\ Len(cache.samples_per_frame) = frame /\ outcomes \in [1 .. RefBoot + Frames -> Ending]
  BY <1>1, <1>2, <1>4 DEF Recorder, Progress
<1>8. PICK r : r = Frame(ref, frame, o)
  OBVIOUS
<1>9. PICK d : d = DrainAudio(r)
  OBVIOUS
<1>10. WellFormed(r) /\ Follows(r, RefBoot) /\ Len(r.slices) = RefBoot + frame + 1
  <2>1. /\ WellFormed(ref) /\ Follows(ref, RefBoot) /\ RefBoot \in Nat /\ frame \in Nat
        /\ Len(ref.slices) = RefBoot + frame
    BY <1>4, <1>5, <1>7
  <2> HIDE DEF o
  <2> QED BY <1>6, <1>8, <2>1, FrameCall
<1>11. /\ WellFormed(d) /\ Follows(d, RefBoot) /\ Len(d.slices) = n + 1 /\ Drained(r) \in Seq(Nat)
       /\ r.fb_local \in Seq(Slice)
  BY <1>4, <1>5, <1>9, <1>10, BufferDrained, DrainFollows DEF WellFormed, Guest
<1>12. PICK s \in Seq(Nat) : s = Drained(r)
  BY <1>11
<1>13. r = Shown(ref, n) /\ d = After(ref, n)
  BY <1>4, <1>5, <1>8, <1>9 DEF Shown, After
<1>14. /\ cache'.frames = Append(cache.frames, r.fb_local)
       /\ cache'.samples_per_frame = Append(cache.samples_per_frame, Len(s))
       /\ cache'.audio = cache.audio \o s /\ ref' = d
       /\ cache' = [frames |-> Append(cache.frames, r.fb_local),
                    samples_per_frame |-> Append(cache.samples_per_frame, Len(s)),
                    audio |-> cache.audio \o s]
  BY <1>1, <1>8, <1>9, <1>12 DEF Record
<1>15. /\ cache.frames \in Seq(Seq(Slice)) /\ cache.samples_per_frame \in Seq(Nat)
       /\ cache.audio \in Seq(Nat) /\ Len(s) \in Nat /\ Len(cache.audio) \in Nat
  BY <1>7
<1>16. /\ cache' \in [frames : Seq(Seq(Slice)), samples_per_frame : Seq(Nat), audio : Seq(Nat)]
       /\ Len(cache'.frames) = frame + 1 /\ Len(cache'.samples_per_frame) = frame + 1
  BY <1>7, <1>11, <1>14, <1>15
<1>17. Recorder'
  <2>1. WellFormed(ref)' /\ Follows(ref, RefBoot)'
    BY <1>1, <1>11, <1>14, SameReplay DEF WellFormed, Follows, Ran, Clean, Rising
  <2>2. WellFormed(live)' /\ Follows(live, RefBoot)'
    BY <1>1, <1>7, SameReplay DEF WellFormed, Follows, Ran, Clean, Rising
  <2>3. Slice' = Slice /\ Ending' = Ending
    BY <1>1, SameReplay DEF Ending
  <2> QED BY <1>1, <1>7, <1>16, <2>1, <2>2, <2>3 DEF Recorder
<1>18. Progress'
  <2>1. NewGuest' = NewGuest
    BY DEF NewGuest
  <2>2. Len(ref'.slices) = RefBoot + (frame + 1) /\ frame + 1 <= Frames /\ frame + 1 \in Nat
    BY <1>1, <1>4, <1>5, <1>11, <1>14
  <2>3. cursor = -1
    BY <1>1, <1>2 DEF Progress
  <2> HIDE DEF n, o
  <2> QED BY <1>1, <1>7, <1>16, <2>1, <2>2, <2>3 DEF Progress
<1>19. PICK q : q = [m \in 0 .. n + 1 |-> IF m <= n THEN p[m] ELSE d]
  OBVIOUS
<1>20. q[n + 1] = d /\ \A m \in 0 .. n : q[m] = p[m]
  BY <1>4, <1>19
<1>21. /\ p[0] = NewGuest /\ p[n] = ref /\ \A m \in 0 .. n - 1 : p[m + 1] = After(p[m], m)
       /\ off \in [0 .. frame -> Nat] /\ off[0] = 0 /\ off[frame] = Len(cache.audio)
  BY <1>3, <1>7 DEF Recalls
<1>22. \A m \in 0 .. n : q[m + 1] = After(q[m], m)
  <2> SUFFICES ASSUME NEW m \in 0 .. n PROVE q[m + 1] = After(q[m], m)
    OBVIOUS
  <2>1. CASE m = n
    BY <1>4, <1>13, <1>20, <1>21, <2>1
  <2>2. CASE m < n
    BY <1>4, <1>20, <1>21, <2>2
  <2> QED BY <1>4, <2>1, <2>2
<1>23. PICK to : to = [k \in 0 .. frame + 1 |-> IF k <= frame THEN off[k] ELSE off[frame] + Len(s)]
  OBVIOUS
<1>24. /\ to \in [0 .. frame + 1 -> Nat] /\ to[frame + 1] = off[frame] + Len(s)
       /\ \A k \in 0 .. frame : to[k] = off[k]
  <2>1. \A k \in 0 .. frame : off[k] \in Nat
    BY <1>21
  <2> QED BY <1>4, <1>15, <1>23, <2>1
<1>25. ASSUME NEW k \in 0 .. frame
       PROVE  LET ran == Shown(q[RefBoot + k], RefBoot + k)
              IN  /\ cache'.frames[k + 1] = ran.fb_local
                  /\ cache'.samples_per_frame[k + 1] = Len(Drained(ran))
                  /\ to[k + 1] = to[k] + Len(Drained(ran))
                  /\ to[k + 1] <= Len(cache'.audio)
                  /\ SubSeq(cache'.audio, to[k] + 1, to[k + 1]) = Drained(ran)
  <2> DEFINE ran == Shown(q[RefBoot + k], RefBoot + k)
  <2>1. CASE k = frame
    <3>1. ran = r /\ Drained(ran) = s
      BY <1>4, <1>5, <1>12, <1>13, <1>20, <1>21, <2>1
    <3>2. cache'.frames[k + 1] = r.fb_local /\ cache'.samples_per_frame[k + 1] = Len(s)
      BY <1>4, <1>7, <1>14, <1>15, <2>1
    <3>3. /\ to[k + 1] = to[k] + Len(s) /\ to[k] = Len(cache.audio)
          /\ to[k + 1] = Len(cache.audio) + Len(s)
      BY <1>4, <1>21, <1>24, <2>1
    <3>4. /\ Len(cache'.audio) = Len(cache.audio) + Len(s)
          /\ SubSeq(cache'.audio, Len(cache.audio) + 1, Len(cache.audio) + Len(s)) = s
      BY <1>14, <1>15, AudioGrows
    <3> HIDE DEF ran
    <3>5. /\ cache'.frames[k + 1] = ran.fb_local
          /\ cache'.samples_per_frame[k + 1] = Len(Drained(ran))
          /\ to[k + 1] = to[k] + Len(Drained(ran))
          /\ to[k + 1] <= Len(cache'.audio)
          /\ SubSeq(cache'.audio, to[k] + 1, to[k + 1]) = Drained(ran)
      <4>1. to[k + 1] <= Len(cache'.audio)
        BY <1>15, <3>3, <3>4
      <4> QED BY <3>1, <3>2, <3>3, <3>4, <4>1, Zenon
    <3> QED BY <3>5 DEF ran
  <2>2. CASE k < frame
    <3>1. k \in 0 .. Len(cache.frames) - 1 /\ k \in 0 .. frame - 1 /\ RefBoot + k \in 0 .. n
      BY <1>4, <1>5, <1>7, <2>2
    <3>2. q[RefBoot + k] = p[RefBoot + k]
      BY <1>20, <3>1
    <3>3. /\ cache.frames[k + 1] = ran.fb_local
          /\ cache.samples_per_frame[k + 1] = Len(Drained(ran))
          /\ off[k + 1] = off[k] + Len(Drained(ran))
          /\ off[k + 1] <= Len(cache.audio)
          /\ SubSeq(cache.audio, off[k] + 1, off[k + 1]) = Drained(ran)
      BY <1>3, <3>1, <3>2 DEF Recalls, RecallsFrame
    <3> HIDE DEF ran
    <3>4. /\ cache'.frames[k + 1] = cache.frames[k + 1]
          /\ cache'.samples_per_frame[k + 1] = cache.samples_per_frame[k + 1]
      <4>1. /\ k + 1 \in 1 .. Len(cache.frames) /\ k + 1 \in 1 .. Len(cache.samples_per_frame)
        BY <1>4, <1>7, <3>1
      <4>2. Append(cache.frames, r.fb_local)[k + 1] = cache.frames[k + 1]
        BY <1>15, <4>1
      <4>3. Append(cache.samples_per_frame, Len(s))[k + 1] = cache.samples_per_frame[k + 1]
        BY <1>15, <4>1
      <4> QED BY <1>14, <4>2, <4>3
    <3>5. to[k] = off[k] /\ to[k + 1] = off[k + 1] /\ off[k] \in Nat /\ off[k + 1] \in Nat
      BY <1>4, <1>21, <1>24, <3>1
    <3>6. /\ Len(cache'.audio) = Len(cache.audio) + Len(s)
          /\ SubSeq(cache'.audio, off[k] + 1, off[k + 1]) = SubSeq(cache.audio, off[k] + 1, off[k + 1])
      <4>1. off[k] \in Nat /\ off[k + 1] \in Nat /\ off[k + 1] <= Len(cache.audio)
        BY <3>3, <3>5
      <4>2. cache'.audio = cache.audio \o s /\ cache.audio \in Seq(Nat)
        BY <1>14, <1>15
      <4>3. Len(cache.audio \o s) = Len(cache.audio) + Len(s)
        BY <4>2, AudioGrows
      <4>4. SubSeq(cache.audio \o s, off[k] + 1, off[k + 1])
            = SubSeq(cache.audio, off[k] + 1, off[k + 1])
        <5>1. \A i, j \in Nat : j <= Len(cache.audio) =>
                 SubSeq(cache.audio \o s, i + 1, j) = SubSeq(cache.audio, i + 1, j)
          BY <4>2, AudioGrows
        <5> QED BY <4>1, <5>1, Zenon
      <4> QED BY <4>2, <4>3, <4>4, Zenon
    <3>7. /\ cache'.frames[k + 1] = ran.fb_local
          /\ cache'.samples_per_frame[k + 1] = Len(Drained(ran))
          /\ to[k + 1] = to[k] + Len(Drained(ran))
          /\ to[k + 1] <= Len(cache'.audio)
          /\ SubSeq(cache'.audio, to[k] + 1, to[k + 1]) = Drained(ran)
      <4>1. to[k + 1] <= Len(cache'.audio)
        BY <1>15, <3>3, <3>5, <3>6
      <4> QED BY <3>3, <3>4, <3>5, <3>6, <4>1, Zenon
    <3> QED BY <3>7 DEF ran
  <2> QED BY <1>4, <2>1, <2>2
<1>26. Recalls(q, to)'
  <2>1. Len(ref'.slices) = n + 1 /\ ref' = d /\ q[0] = NewGuest /\ Len(cache'.frames) = frame + 1
    BY <1>4, <1>11, <1>14, <1>16, <1>20, <1>21
  <2>2. NewGuest' = NewGuest
    BY DEF NewGuest
  <2> HIDE DEF n
  <2>3. \A m \in 0 .. n + 1 - 1 : q[m + 1] = After(q[m], m)'
    BY <1>1, <1>4, <1>22, SameOutcomes
  <2>4. to[0] = 0 /\ to[frame + 1] = Len(cache'.audio)
    BY <1>4, <1>14, <1>15, <1>21, <1>24, AudioGrows
  <2>5. \A g : Drained(g)' = Drained(g)
    BY DEF Drained
  <2>6. ASSUME NEW k \in 0 .. frame PROVE RecallsFrame(q, to, k)'
    <3>1. Shown(q[RefBoot + k], RefBoot + k)' = Shown(q[RefBoot + k], RefBoot + k)
      BY <1>1, SameOutcomes
    <3> QED BY <1>25, <2>5, <3>1, Zenon DEF RecallsFrame
  <2>8. q[n + 1] = d /\ to \in [0 .. frame + 1 -> Nat]
    BY <1>20, <1>24
  <2>9. q[0] = NewGuest' /\ q[Len(ref'.slices)] = ref'
    BY <2>1, <2>2, <2>8, Zenon
  <2>12. ASSUME NEW m \in 0 .. Len(ref'.slices) - 1 PROVE q[m + 1] = After(q[m], m)'
    <3>1. m \in 0 .. n + 1 - 1
      BY <1>4, <2>1
    <3> QED BY <2>3, <3>1, Zenon
  <2>10. /\ to \in [0 .. Len(cache'.frames) -> Nat]
         /\ to[0] = 0 /\ to[Len(cache'.frames)] = Len(cache'.audio)
    BY <2>1, <2>4, <2>8
  <2>11. ASSUME NEW k \in 0 .. Len(cache'.frames) - 1 PROVE RecallsFrame(q, to, k)'
    <3>1. k \in 0 .. frame
      BY <1>4, <2>1
    <3> QED BY <2>6, <3>1, Zenon
  <2> QED BY <2>9, <2>10, <2>11, <2>12, Zenon DEF Recalls
<1>27. Plays(q, to)'
  BY <1>1, <1>3, <1>4, <1>7, <1>20, <1>21, NewGuestWellFormed DEF Plays
<1> QED BY <1>1, <1>2, <1>17, <1>18, <1>26, <1>27 DEF RefInv

\* The recording stays what it was.
LEMMA SameRecording ==
    ASSUME replay' = replay, outcomes' = outcomes, ref' = ref, cache' = cache, Recorder
    PROVE  /\ \A p, off : Recalls(p, off) => Recalls(p, off)'
           /\ WellFormed(live') /\ Follows(live', RefBoot) => Recorder'
<1>1. ASSUME NEW p, NEW off, Recalls(p, off) PROVE Recalls(p, off)'
  <2>1. NewGuest' = NewGuest
    BY DEF NewGuest
  <2>2. \A n \in 0 .. Len(ref.slices) - 1 : p[n + 1] = After(p[n], n)
    BY <1>1 DEF Recalls
  <2>3. ASSUME NEW n \in 0 .. Len(ref'.slices) - 1 PROVE p[n + 1] = After(p[n], n)'
    <3>1. n \in 0 .. Len(ref.slices) - 1
      OBVIOUS
    <3>2. After(p[n], n)' = After(p[n], n)
      BY SameOutcomes
    <3> QED BY <2>2, <3>1, <3>2
  <2>4. ASSUME NEW k \in 0 .. Len(cache'.frames) - 1 PROVE RecallsFrame(p, off, k)'
    <3>1. k \in 0 .. Len(cache.frames) - 1
      OBVIOUS
    <3>2. Shown(p[RefBoot + k], RefBoot + k)' = Shown(p[RefBoot + k], RefBoot + k)
      BY SameOutcomes
    <3>3. RecallsFrame(p, off, k)
      BY <1>1, <3>1 DEF Recalls
    <3>4. \A g : Drained(g)' = Drained(g)
      BY DEF Drained
    <3> QED BY <3>2, <3>3, <3>4, Zenon DEF RecallsFrame
  <2>5. /\ p[0] = NewGuest /\ p[Len(ref.slices)] = ref
        /\ off \in [0 .. Len(cache.frames) -> Nat]
        /\ off[0] = 0 /\ off[Len(cache.frames)] = Len(cache.audio)
    BY <1>1 DEF Recalls
  <2> QED BY <2>1, <2>3, <2>4, <2>5, Zenon DEF Recalls
<1>2. ASSUME WellFormed(live'), Follows(live', RefBoot) PROVE Recorder'
  <2>1. WellFormed(ref)' /\ Follows(ref, RefBoot)'
    BY SameReplay DEF Recorder, WellFormed, Follows, Ran, Clean, Rising
  <2>2. WellFormed(live)' /\ Follows(live, RefBoot)'
    BY <1>2, SameReplay DEF WellFormed, Follows, Ran, Clean, Rising
  <2>3. Slice' = Slice /\ Ending' = Ending
    BY SameReplay DEF Ending
  <2> QED BY <2>1, <2>2, <2>3 DEF Recorder
<1> QED BY <1>1, <1>2

LEMMA LiveBootRefInv ==
    ASSUME RefInv, LiveBoot PROVE RefInv'
<1> DEFINE n == Len(live.slices)
           o == outcomes[n + 1]
<1>1. /\ phase = "boot" /\ n < RefBoot /\ replay' = replay /\ outcomes' = outcomes
      /\ ref' = ref /\ cache' = cache /\ seen' = seen
      /\ phase' = phase /\ frame' = frame /\ cursor' = cursor /\ offset' = offset
      /\ live' = Boot(live, o)
  BY DEF LiveBoot
<1>2. Recorder /\ Progress /\ seen.cached = seen.live
  BY DEF RefInv
<1>3. PICK p, off : Recalls(p, off) /\ Plays(p, off)
  BY DEF RefInv
<1>4. /\ RefBoot \in Nat /\ Frames \in Nat /\ n \in Nat
      /\ WellFormed(live) /\ Follows(live, RefBoot)
  BY <1>2, RefConstants DEF Recorder, WellFormed, Guest
<1>5. o \in Ending
  BY <1>1, <1>2, <1>4 DEF Recorder
<1>6. PICK b : b = Boot(live, o)
  OBVIOUS
<1>7. WellFormed(b) /\ Follows(b, RefBoot) /\ Len(b.slices) = n + 1
  <2> HIDE DEF o
  <2> QED BY <1>1, <1>4, <1>5, <1>6, BootCall
<1>8. Recorder' /\ Recalls(p, off)'
  BY <1>1, <1>2, <1>3, <1>6, <1>7, SameRecording
<1>9. Progress'
  BY <1>1, <1>2, <1>4, <1>6, <1>7 DEF Progress
<1>10. b = p[n + 1]
  <2>1. n \in 0 .. Len(ref.slices) - 1
    BY <1>1, <1>2, <1>4 DEF Progress
  <2>2. p[n] = live /\ p[n + 1] = After(p[n], n)
    BY <1>3, <2>1 DEF Recalls, Plays
  <2> QED BY <1>1, <1>6, <2>2 DEF After
<1>11. Plays(p, off)'
  BY <1>1, <1>3, <1>6, <1>7, <1>10 DEF Plays
<1> QED BY <1>1, <1>2, <1>8, <1>9, <1>11 DEF RefInv

LEMMA CompareRefInv ==
    ASSUME RefInv, NEW outcome \in Outcome, Compare(outcome) PROVE RefInv'
<1> DEFINE n == Len(live.slices)
           o == outcomes[n + 1]
           played == CachedAudio(cursor + 1)
<1>1. /\ phase = "lockstep" /\ frame < Frames /\ replay' = replay /\ outcomes' = outcomes
      /\ ref' = ref /\ cache' = cache /\ phase' = phase /\ frame' = frame + 1
      /\ cursor' = cursor + 1 /\ offset' = offset + Len(played)
      /\ live' = DrainAudio(Frame(live, frame, o))
      /\ seen'.cached = [fb |-> CachedFrame(cursor + 1), audio |-> played]
      /\ seen'.live = [fb |-> Frame(live, frame, o).fb_local,
                       audio |-> Drained(Frame(live, frame, o))]
  BY DEF Compare
<1>2. Recorder /\ Progress /\ seen.cached = seen.live
  BY DEF RefInv
<1>3. PICK p, off : Recalls(p, off) /\ Plays(p, off)
  BY DEF RefInv
<1>4. /\ RefBoot \in Nat /\ Frames \in Nat /\ frame \in Nat /\ n = RefBoot + frame
      /\ cursor + 1 = frame /\ WellFormed(live) /\ Follows(live, RefBoot)
      /\ Len(cache.frames) = Frames /\ Len(ref.slices) = RefBoot + Frames
  BY <1>1, <1>2, RefConstants DEF Recorder, Progress
<1>5. o \in Ending
  <2>1. n + 1 \in 1 .. RefBoot + Frames
    BY <1>1, <1>4
  <2> QED BY <1>2, <2>1 DEF Recorder
<1>6. PICK l : l = Frame(live, frame, o)
  OBVIOUS
<1>7. PICK d : d = DrainAudio(l)
  OBVIOUS
<1>8. WellFormed(l) /\ Follows(l, RefBoot) /\ Len(l.slices) = RefBoot + frame + 1
  <2>1. /\ WellFormed(live) /\ Follows(live, RefBoot) /\ RefBoot \in Nat /\ frame \in Nat
        /\ Len(live.slices) = RefBoot + frame
    BY <1>4
  <2> HIDE DEF o
  <2> QED BY <1>5, <1>6, <2>1, FrameCall
<1>9. WellFormed(d) /\ Follows(d, RefBoot) /\ Len(d.slices) = n + 1 /\ Drained(l) \in Seq(Nat)
  BY <1>4, <1>7, <1>8, BufferDrained, DrainFollows
<1>10. Recorder' /\ Recalls(p, off)'
  BY <1>1, <1>2, <1>3, <1>6, <1>7, <1>9, SameRecording
<1>11. Progress'
  <2>1. Len(live'.slices) = RefBoot + (frame + 1) /\ frame + 1 <= Frames /\ frame + 1 \in Nat
    BY <1>1, <1>4, <1>6, <1>7, <1>9
  <2>2. cursor' = frame + 1 - 1
    BY <1>1, <1>4
  <2> HIDE DEF n, o, played
  <2> QED BY <1>1, <1>4, <2>1, <2>2 DEF Progress
<1>12. /\ p[n] = live /\ offset = off[frame] /\ p[n + 1] = After(p[n], n)
       /\ RecallsFrame(p, off, frame)
  <2>1. n \in 0 .. Len(ref.slices) - 1 /\ frame \in 0 .. Len(cache.frames) - 1
    BY <1>1, <1>4
  <2> QED BY <1>1, <1>3, <2>1 DEF Recalls, Plays
<1>13. l = Shown(p[RefBoot + frame], RefBoot + frame) /\ d = p[n + 1]
  <2>1. l = Shown(live, n) /\ d = After(live, n)
    BY <1>4, <1>6, <1>7 DEF Shown, After
  <2> QED BY <1>4, <1>12, <2>1
<1>14. /\ cache.frames[frame + 1] = l.fb_local
       /\ cache.samples_per_frame[frame + 1] = Len(Drained(l))
       /\ off[frame + 1] = off[frame] + Len(Drained(l))
       /\ SubSeq(cache.audio, off[frame] + 1, off[frame + 1]) = Drained(l)
  BY <1>12, <1>13 DEF RecallsFrame
<1>15. Recorded(cursor + 1)
  BY <1>1, <1>4 DEF Recorded
<1>16. played = Drained(l)
  <2>1. played = SubSeq(cache.audio, off[frame] + 1, off[frame] + cache.samples_per_frame[frame + 1])
    BY <1>4, <1>12, <1>15 DEF CachedAudio
  <2> QED BY <1>14, <2>1
<1>17. CachedFrame(cursor + 1) = l.fb_local
  BY <1>4, <1>14, <1>15 DEF CachedFrame
<1> HIDE DEF played
<1>18. seen'.cached = seen'.live
  BY <1>1, <1>6, <1>16, <1>17
<1>19. Plays(p, off)'
  <2>1. offset' = off[frame + 1]
    BY <1>1, <1>12, <1>14, <1>16
  <2>2. Len(live'.slices) = n + 1 /\ live' = d
    BY <1>1, <1>6, <1>7, <1>9
  <2> HIDE DEF n, o
  <2> QED BY <1>1, <1>13, <2>1, <2>2 DEF Plays
<1> QED BY <1>10, <1>11, <1>18, <1>19 DEF RefInv

LEMMA NextRefInv ==
    ASSUME RefInv, [LockstepNext]_lockstepVars PROVE RefInv'
<1>1. Recorder /\ Progress /\ seen.cached = seen.live /\ RefBoot \in Nat /\ Frames \in Nat
  BY RefConstants DEF RefInv
<1>2. PICK p, off : Recalls(p, off) /\ Plays(p, off)
  BY DEF RefInv
<1>3. ASSUME replay' = replay, outcomes' = outcomes, ref' = ref, live' = live, cache' = cache,
             seen' = seen, offset' = offset, Progress', Plays(p, off)'
      PROVE  RefInv'
  <2>1. WellFormed(live') /\ Follows(live', RefBoot)
    BY <1>1, <1>3 DEF Recorder
  <2> QED BY <1>1, <1>2, <1>3, <2>1, SameRecording DEF RefInv
<1>4. CASE UNCHANGED lockstepVars
  BY <1>1, <1>2, <1>3, <1>4 DEF lockstepVars, guests, Progress, Plays, NewGuest
<1>5. CASE Grade
  <2>1. /\ phase = "record" /\ frame = Frames /\ phase' = "boot" /\ frame' = 0
        /\ Len(ref.slices) >= RefBoot
        /\ UNCHANGED <<replay, outcomes, ref, live, cache, seen, offset, cursor>>
    BY <1>5 DEF Grade, guests
  <2>5. Len(ref.slices) \in Nat /\ Len(NewGuest.slices) = 0
    BY <1>1 DEF Recorder, WellFormed, Guest, NewGuest
  <2>2. /\ Len(cache.frames) = Frames /\ Len(ref.slices) = RefBoot + Frames
        /\ live = NewGuest /\ Len(live.slices) = 0 /\ cursor = -1
    BY <1>1, <2>1, <2>5 DEF Progress
  <2>3. Progress'
    BY <1>1, <2>1, <2>2 DEF Progress
  <2>4. Plays(p, off)'
    BY <1>2, <2>1 DEF Plays
  <2> QED BY <1>3, <2>1, <2>3, <2>4
<1>6. CASE StartLockstep
  <2>1. /\ phase = "boot" /\ Len(live.slices) = RefBoot /\ phase' = "lockstep" /\ frame' = frame
        /\ cursor' = cursor + 0
        /\ UNCHANGED <<replay, outcomes, ref, live, cache, seen, offset>>
    BY <1>6 DEF StartLockstep, guests, CachedBoot
  <2>2. frame = 0 /\ cursor = -1
    BY <1>1, <2>1 DEF Progress
  <2>3. Progress'
    BY <1>1, <2>1, <2>2 DEF Progress
  <2>4. Plays(p, off)'
    BY <1>2, <2>1, <2>2 DEF Plays, Recalls
  <2> QED BY <1>3, <2>1, <2>3, <2>4
<1>7. CASE ScoreLockstep
  <2>1. /\ phase = "lockstep" /\ phase' = "scored"
        /\ UNCHANGED <<replay, outcomes, ref, live, cache, seen, offset, cursor, frame>>
    BY <1>7 DEF ScoreLockstep, guests
  <2> QED BY <1>1, <1>2, <1>3, <2>1 DEF Progress, Plays
<1>8. ASSUME NEW outcome \in Outcome, ConfiguredBoot(outcome) \/ LockstepBoot(outcome)
      PROVE  RefInv'
  <2>1. UNCHANGED <<replay, outcomes, phase, ref, live, cache, cursor, offset, frame, seen>>
    BY <1>8 DEF ConfiguredBoot, LockstepBoot
  <2> QED BY <1>1, <1>2, <1>3, <2>1 DEF Progress, Plays, NewGuest
<1>9. ASSUME NEW outcome \in Outcome, Compare(outcome) PROVE RefInv'
  BY <1>9, CompareRefInv
<1> QED BY <1>4, <1>5, <1>6, <1>7, <1>8, <1>9,
           RecordBootRefInv, RecordFrameRefInv, LiveBootRefInv DEF LockstepNext

\* Grading from the cache is grading against the reference itself, whatever
\* the reference's calls come to and however many samples its frames have
\* (ref_cache.rs, write and CachedReference; lockstep/lib.rs, the boot loops).
THEOREM LockstepCachedPlaysLikeLive == LockstepSpec => []CachedPlaysLikeLive
<1>1. RefInv => CachedPlaysLikeLive
  BY DEF RefInv, CachedPlaysLikeLive
<1> QED BY <1>1, InitRefInv, NextRefInv, PTL DEF LockstepSpec

-----------------------------------------------------------------------------
(* Frame N of one side and frame N of the other *)

\* What a clean guest shows.
LEMMA CleanShows ==
    ASSUME NEW g, WellFormed(g), NEW boot \in Nat, Follows(g, boot), NEW n \in Nat,
           Len(g.slices) = boot + n, Clean(g)
    PROVE  g.fb_local = [i \in 1 .. boot + n |->
                            [keys |-> KeysHeld(i, boot), clean |-> TRUE]]
<1>1. /\ g.slices \in Seq(Slice) /\ g.fb_local = g.slices
      /\ \A i \in DOMAIN g.slices : g.slices[i].keys = KeysHeld(i, boot) /\ g.slices[i].clean
  BY DEF WellFormed, Guest, Follows, Ran, Clean
<1>2. DOMAIN g.slices = 1 .. boot + n
  BY <1>1
<1>3. \A i \in 1 .. boot + n : g.slices[i] = [keys |-> KeysHeld(i, boot), clean |-> TRUE]
  <2> SUFFICES ASSUME NEW i \in 1 .. boot + n
               PROVE  g.slices[i] = [keys |-> KeysHeld(i, boot), clean |-> TRUE]
    OBVIOUS
  <2>1. g.slices[i] \in Slice
    BY <1>1, <1>2
  <2> QED BY <1>1, <1>2, <2>1 DEF Slice
<1>4. g.slices = [i \in 1 .. boot + n |-> g.slices[i]]
  BY <1>1, <1>2
<1> QED BY <1>1, <1>3, <1>4

LEMMA NextFramesAlign ==
    ASSUME CandInv, RefInv, RefInv', FramesAlign, [LockstepNext]_lockstepVars
    PROVE  FramesAlign'
<1>1. ASSUME NEW outcome \in Outcome, Compare(outcome) PROVE FramesAlign'
  <2> DEFINE o == outcomes[Len(live.slices) + 1]
             f == Frame(cand, frame, outcome)
             l == Frame(live, frame, o)
             m == frame + 1
  <2>1. /\ phase = "lockstep" /\ frame < Frames /\ replay' = replay /\ frame' = m
        /\ cand' = DrainAudio(f) /\ live' = DrainAudio(l)
        /\ seen'.cand = [fb |-> f.fb_local, audio |-> Drained(f)]
        /\ seen'.live = [fb |-> l.fb_local, audio |-> Drained(l)]
    BY <1>1 DEF Compare
  <2>2. /\ candidate_boot \in Nat /\ RefBoot \in Nat /\ Frames \in Nat /\ frame \in Nat
        /\ outcome \in Ending
    BY LockstepAssumption DEF candidate_boot, Ending, CandInv
  <2>3. /\ WellFormed(cand) /\ Follows(cand, candidate_boot)
        /\ Len(cand.slices) = candidate_boot + frame
    BY <2>1 DEF CandInv
  <2>4. /\ WellFormed(live) /\ Follows(live, RefBoot) /\ Len(live.slices) = RefBoot + frame
        /\ o \in Ending
    <3>1. Recorder /\ Len(live.slices) = RefBoot + frame
      BY <2>1 DEF RefInv, Progress
    <3>2. Len(live.slices) + 1 \in 1 .. RefBoot + Frames
      BY <2>1, <2>2, <3>1
    <3> QED BY <3>1, <3>2 DEF Recorder
  <2> HIDE DEF o
  <2>5. /\ WellFormed(f) /\ Follows(f, candidate_boot) /\ Len(f.slices) = candidate_boot + frame + 1
        /\ Clean(f) => f.fuel /\ f.AUDIO = <<Len(f.slices)>>
    BY <2>2, <2>3, FrameCall
  <2>6. /\ WellFormed(l) /\ Follows(l, RefBoot) /\ Len(l.slices) = RefBoot + frame + 1
        /\ Clean(l) => l.fuel /\ l.AUDIO = <<Len(l.slices)>>
    BY <2>2, <2>4, FrameCall
  <2>7. /\ DrainAudio(f).slices = f.slices /\ DrainAudio(l).slices = l.slices
        /\ Clean(f) => Drained(f) = <<candidate_boot + m>>
        /\ Clean(l) => Drained(l) = <<RefBoot + m>>
    BY <2>2, <2>5, <2>6, BufferDrained DEF Drained
  <2>8. \A n : KeysAt(n)' = KeysAt(n)
    BY <2>1, SameReplay
  <2>9. Clean(cand)' => FollowsReplay(seen.cand, candidate_boot_frames + CandBoot)'
    <3> SUFFICES ASSUME Clean(cand)'
                 PROVE  FollowsReplay(seen.cand, candidate_boot_frames + CandBoot)'
      OBVIOUS
    <3>1. Clean(f)
      BY <2>1, <2>7 DEF Clean
    <3> HIDE DEF f
    <3>2. f.fb_local = [i \in 1 .. candidate_boot + m |->
                           [keys |-> KeysHeld(i, candidate_boot), clean |-> TRUE]]
      <4>1. m \in Nat /\ Len(f.slices) = candidate_boot + m
        BY <2>2, <2>5
      <4> QED BY <2>2, <2>5, <3>1, <4>1, CleanShows
    <3>3. /\ seen'.cand.fb = f.fb_local /\ seen'.cand.audio = <<candidate_boot + m>>
      BY <2>1, <2>7, <3>1
    <3> QED BY <2>1, <2>8, <3>2, <3>3 DEF FollowsReplay, KeysHeld, candidate_boot
  <2>10. Clean(live)' => FollowsReplay(seen.cached, RefBoot)'
    <3> SUFFICES ASSUME Clean(live)' PROVE FollowsReplay(seen.cached, RefBoot)'
      OBVIOUS
    <3>1. Clean(l)
      BY <2>1, <2>7 DEF Clean
    <3> HIDE DEF l
    <3>2. l.fb_local = [i \in 1 .. RefBoot + m |-> [keys |-> KeysHeld(i, RefBoot), clean |-> TRUE]]
      <4>1. m \in Nat /\ Len(l.slices) = RefBoot + m
        BY <2>2, <2>6
      <4> QED BY <2>2, <2>6, <3>1, <4>1, CleanShows
    <3>3. seen'.cached.fb = l.fb_local /\ seen'.cached.audio = <<RefBoot + m>>
      BY <2>1, <2>7, <3>1 DEF RefInv
    <3> QED BY <2>1, <2>8, <3>2, <3>3 DEF FollowsReplay, KeysHeld
  <2> QED BY <2>9, <2>10 DEF FramesAlign
<1>2. CASE StartLockstep
  BY <1>2 DEF StartLockstep, CandInv, FramesAlign
<1>3. CASE ScoreLockstep \/ UNCHANGED lockstepVars
  <2>1. /\ phase' \in {"lockstep", "scored"} => phase \in {"lockstep", "scored"}
        /\ UNCHANGED <<replay, frame, cand, live, seen>>
    BY <1>3 DEF ScoreLockstep, lockstepVars, guests
  <2>2. \A n : KeysAt(n)' = KeysAt(n)
    BY <2>1, SameReplay
  <2> QED BY <2>1, <2>2 DEF FramesAlign, FollowsReplay, Clean
<1>4. ASSUME NEW outcome \in Outcome,
             ConfiguredBoot(outcome) \/ LockstepBoot(outcome)
      PROVE  FramesAlign'
  BY <1>4 DEF ConfiguredBoot, LockstepBoot, FramesAlign
<1>5. CASE RecordBoot \/ RecordFrame \/ Grade \/ LiveBoot
  BY <1>5 DEF RecordBoot, RecordFrame, Grade, LiveBoot, FramesAlign
<1> QED BY <1>1, <1>2, <1>3, <1>4, <1>5 DEF LockstepNext

\* Frame N means the same thing on both sides, whatever their warm-ups, in
\* every test case and for every replay, as long as no call of a side traps or
\* runs out of fuel (lockstep/lib.rs, boot_frames; main.rs,
\* candidate_boot_frames).
THEOREM LockstepFramesAlign == LockstepSpec => []FramesAlign
<1>1. LockstepInit => FramesAlign
  BY DEF LockstepInit, FramesAlign
<1> QED BY <1>1, InitCandInv, NextCandInv, InitRefInv, NextRefInv, NextFramesAlign, PTL
        DEF LockstepSpec
=============================================================================
