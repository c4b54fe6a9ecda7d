------------------------------ MODULE RefCache ------------------------------
(***************************************************************************)
(* The cache of reference runs (ref_cache.rs) and the processes that use   *)
(* it (grade_testcase and precompute_cache of the grader's main.rs), for   *)
(* one test case: its file is shared by every grader over the corpus.  A   *)
(* recorded run is compressed into the file as a stream, here one cell per *)
(* frame; only a stream whose cells all come from one recording is decoded *)
(* again.  The file is created in place, so a crash, a full disk or a      *)
(* second grader may leave or show a part of one.                          *)
(*                                                                         *)
(* The corpus may be edited at any time.  A process reads it four times:   *)
(* the manifest with the hashes of the roms when it starts, the rom, the   *)
(* replay, and the replay again to hash it.  What is read is a file's      *)
(* content, and a hash is the content it was taken of.                     *)
(***************************************************************************)
EXTENDS Naturals, Sequences

CONSTANTS
    Process,           \* processes of the grader
    Reference,         \* reference modules (--reference)
    Corpus,            \* states of the corpus: [rom, replay, frames] of the test case
    OldCache,          \* recordings that may be there at the start
    NoReplay,          \* the content of an empty replay
    MaxFrames,         \* frames of the longest recording
    CACHE_VERSION

RomFiles == {c.rom : c \in Corpus}
ReplayFiles == {c.replay : c \in Corpus}
CacheKey == [ref_wasm : Reference, rom : RomFiles, replay : ReplayFiles \cup {NoReplay}]

\* What a process reads: the key, the frames of the manifest, and the files
\* it loads.
Inputs == [key : CacheKey, frames : 1 .. MaxFrames, rom : RomFiles, replay : ReplayFiles]

\* What it reads when no edit comes between.
InputsOf(w, c) ==
    [key |-> [ref_wasm |-> w, rom |-> c.rom, replay |-> c.replay], frames |-> c.frames,
     rom |-> c.rom, replay |-> c.replay]
WholeInputs == {InputsOf(w, c) : w \in Reference, c \in Corpus}

\* The run that a reference makes of these inputs.
Shows(in) == [ref_wasm |-> in.key.ref_wasm, rom |-> in.rom, replay |-> in.replay]

\* What a process that does not run holds.
NoInputs == CHOOSE in \in Inputs : TRUE

Recording(in) ==
    [version |-> CACHE_VERSION, key |-> in.key, frames |-> in.frames, shows |-> Shows(in)]
MixedRecordings == {Recording(in) : in \in Inputs \ WholeInputs}
Cache == {Recording(in) : in \in Inputs} \cup OldCache

ASSUME RefCacheAssumption ==
    /\ MaxFrames \in Nat \ {0} /\ Reference # {}
    /\ \A c \in Corpus : c.frames \in 1 .. MaxFrames
    /\ \A c \in OldCache :
          c \in [version : {c.version}, frames : 1 .. MaxFrames, shows : {c.shows},
                 key : [ref_wasm : {c.key.ref_wasm}, rom : {c.key.rom},
                        replay : {c.key.replay}]]

VARIABLES
    corpus,     \* what is checked out
    file,       \* the cells of the cache file, each empty or of one recording
    pc,         \* the step a process is at, "idle" when it does not run
    purpose,    \* "grade" or "precompute"
    inputs,     \* what the process has read of the corpus
    at,         \* cells it has read or written
    got,        \* the recording it reads, and then plays
    verdict,
    disturbed   \* history: another process wrote the file, or an operation of
                \* its own failed, while the process was at work

local == <<pc, purpose, inputs, at, got, verdict>>
vars == <<corpus, file, local, disturbed>>

Blank == [i \in 1 .. MaxFrames |-> {}]

\* Past the end of the recording its last frame stays.
Played(c, n) == IF n <= c.frames THEN <<c.shows, n>> ELSE <<c.shows, c.frames>>

Unscored(is) == [is |-> is, ref |-> <<>>]
Scored(in, c) == [is |-> "scored", ref |-> [n \in 1 .. in.frames |-> Played(c, n)]]
Verdict == {Unscored(is) : is \in {"none", "skipped", "failed"}}
           \cup {Scored(in, c) : in \in Inputs, c \in Cache}

Reading == {"rom", "replay", "hash"}
Steps == {"idle", "check", "run", "write", "load", "play"} \cup Reading

TypeOK ==
    /\ corpus \in Corpus
    /\ file \in [1 .. MaxFrames -> SUBSET Cache]
    /\ pc \in [Process -> Steps]
    /\ purpose \in [Process -> {"grade", "precompute"}]
    /\ inputs \in [Process -> Inputs]
    /\ at \in [Process -> 0 .. MaxFrames]
    /\ got \in [Process -> SUBSET Cache]
    /\ verdict \in [Process -> Verdict]
    /\ disturbed \in [Process -> BOOLEAN]

Init ==
    /\ corpus \in Corpus
    /\ \E c \in OldCache, n \in 0 .. MaxFrames :
          file = [i \in 1 .. MaxFrames |-> IF i <= n /\ i <= c.frames THEN {c} ELSE {}]
    /\ pc = [p \in Process |-> "idle"] /\ purpose = [p \in Process |-> "grade"]
    /\ inputs = [p \in Process |-> NoInputs]
    /\ at = [p \in Process |-> 0] /\ got = [p \in Process |-> {}]
    /\ verdict = [p \in Process |-> Unscored("none")]
    /\ disturbed = [p \in Process |-> FALSE]

Goto(p, step) == pc' = [pc EXCEPT ![p] = step]
From(p, n) == at' = [at EXCEPT ![p] = n]
Holding(p, caches) == got' = [got EXCEPT ![p] = caches]

Quit(p) ==
    /\ Goto(p, "idle") /\ From(p, 0) /\ Holding(p, {})
    /\ inputs' = [inputs EXCEPT ![p] = NoInputs]

End(p, is) ==
    /\ Quit(p)
    /\ verdict' = [verdict EXCEPT ![p] = Unscored(is)]

\* The file's bytes are not those this process or the others rely on.
Disturbing(p) ==
    disturbed' = [q \in Process |-> disturbed[q] \/ (q # p /\ pc[q] # "idle")]
Failing(p) == disturbed' = [disturbed EXCEPT ![p] = TRUE]

\* The process starts: it reads and hashes the reference, reads the manifest
\* and indexes the roms by their hashes.
Start(p) ==
    /\ pc[p] = "idle" /\ Goto(p, "rom") /\ From(p, 0) /\ Holding(p, {})
    /\ \E why \in {"grade", "precompute"}, w \in Reference :
          /\ purpose' = [purpose EXCEPT ![p] = why]
          /\ inputs' = [inputs EXCEPT ![p] = InputsOf(w, corpus)]
    /\ verdict' = [verdict EXCEPT ![p] = Unscored("none")]
    /\ disturbed' = [disturbed EXCEPT ![p] = FALSE]
    /\ UNCHANGED <<corpus, file>>

\* The rom is looked up by the hash of the manifest; what the file holds by
\* now is not hashed again.
LoadRom(p) ==
    /\ pc[p] = "rom" /\ Goto(p, "replay")
    /\ inputs' = [inputs EXCEPT ![p].rom = corpus.rom]
    /\ UNCHANGED <<corpus, file, purpose, at, got, verdict, disturbed>>

\* The index does not hold the rom, or its file is gone.
SkipRom(p) ==
    /\ pc[p] = "rom" /\ End(p, "skipped")
    /\ UNCHANGED <<corpus, file, purpose, disturbed>>

LoadReplay(p) ==
    /\ pc[p] = "replay" /\ Goto(p, "hash")
    /\ inputs' = [inputs EXCEPT ![p].replay = corpus.replay]
    /\ UNCHANGED <<corpus, file, purpose, at, got, verdict, disturbed>>

\* An error of its own ends the grade.
LoadReplayFails(p) ==
    /\ pc[p] = "replay" /\ Failing(p)
    /\ End(p, IF purpose[p] = "grade" THEN "failed" ELSE "none")
    /\ UNCHANGED <<corpus, file, purpose>>

\* The replay's file is read a second time.
HashReplay(p) ==
    /\ pc[p] = "hash" /\ Goto(p, "check")
    /\ inputs' = [inputs EXCEPT ![p].key.replay = corpus.replay]
    /\ UNCHANGED <<corpus, file, purpose, at, got, verdict, disturbed>>

\* A file that cannot be read counts as an empty replay.
HashReplayFails(p) ==
    /\ pc[p] = "hash" /\ Goto(p, "check") /\ Failing(p)
    /\ inputs' = [inputs EXCEPT ![p].key.replay = NoReplay]
    /\ UNCHANGED <<corpus, file, purpose, at, got, verdict>>

ReadInputs(p) ==
    \/ LoadRom(p) \/ SkipRom(p) \/ LoadReplay(p) \/ LoadReplayFails(p)
    \/ HashReplay(p) \/ HashReplayFails(p)

\* load, one cell at a time: decoded is what the cells up to now come from.
Decodes(p) ==
    LET cell == file[at[p] + 1]
    IN  cell # {} /\ (at[p] = 0 \/ cell = got[p])

ReadCell(p) ==
    /\ pc[p] \in {"check", "load"} /\ Decodes(p)
    /\ \A c \in file[at[p] + 1] : at[p] + 1 < c.frames
    /\ Holding(p, file[at[p] + 1]) /\ From(p, at[p] + 1)
    /\ UNCHANGED <<corpus, file, pc, purpose, inputs, verdict, disturbed>>

\* Seeded fault: the replay is not compared.
Current_NoReplay(p, c) ==
    /\ c.version = CACHE_VERSION
    /\ c.key.ref_wasm = inputs[p].key.ref_wasm /\ c.key.rom = inputs[p].key.rom

Current(p, c) ==
    /\ c.version = CACHE_VERSION
    /\ c.key.ref_wasm = inputs[p].key.ref_wasm
    /\ c.key.rom = inputs[p].key.rom /\ c.key.replay = inputs[p].key.replay

Complete(p) == Decodes(p) /\ \A c \in file[at[p] + 1] : at[p] + 1 = c.frames

\* Ok(Some): the caller has a recording.  Ok(None) and Err are treated alike.
Loads(p) == Complete(p) /\ \A c \in file[at[p] + 1] : Current(p, c)
Refuses(p) == ~Decodes(p) \/ (Complete(p) /\ ~Loads(p))

\* A grade loads the file whatever ensure_written came to.
Ensured(p) ==
    \/ purpose[p] = "precompute" /\ End(p, "none") /\ UNCHANGED purpose
    \/ /\ purpose[p] = "grade" /\ Goto(p, "load") /\ From(p, 0) /\ Holding(p, {})
       /\ UNCHANGED <<purpose, inputs, verdict>>

\* Seeded fault: an error of load counts as a file that is there.
AlreadyCurrent_OrBroken(p) ==
    /\ pc[p] = "check" /\ (Loads(p) \/ ~Decodes(p)) /\ Ensured(p)
    /\ UNCHANGED <<corpus, file, disturbed>>

AlreadyCurrent(p) ==
    /\ pc[p] = "check" /\ Loads(p) /\ Ensured(p)
    /\ UNCHANGED <<corpus, file, disturbed>>

Stale(p) ==
    /\ pc[p] = "check" /\ Refuses(p)
    /\ Goto(p, "run") /\ From(p, 0) /\ Holding(p, {})
    /\ UNCHANGED <<corpus, file, purpose, inputs, verdict, disturbed>>

\* The reference has run all frames before the file is created.
Create(p) ==
    /\ pc[p] = "run" /\ Goto(p, "write")
    /\ file' = Blank /\ Disturbing(p)
    /\ UNCHANGED <<corpus, purpose, inputs, at, got, verdict>>

\* Each writer has its own offset in the file.
WriteCell(p) ==
    /\ pc[p] = "write"
    /\ file' = [file EXCEPT ![at[p] + 1] = {Recording(inputs[p])}] /\ Disturbing(p)
    /\ \/ /\ at[p] + 1 < inputs[p].frames /\ From(p, at[p] + 1)
          /\ UNCHANGED <<pc, purpose, inputs, got, verdict>>
       \/ at[p] + 1 = inputs[p].frames /\ Ensured(p)
    /\ UNCHANGED corpus

\* The reference does not load, the file cannot be created, or the disk is
\* full; what the dropped BufWriter fails to flush is not even an error.
WriteFails(p) ==
    /\ pc[p] \in {"run", "write"} /\ Failing(p) /\ Ensured(p)
    /\ UNCHANGED <<corpus, file>>

Load(p) ==
    /\ pc[p] = "load" /\ Loads(p)
    /\ Goto(p, "play") /\ Holding(p, file[at[p] + 1]) /\ From(p, 0)
    /\ UNCHANGED <<corpus, file, purpose, inputs, verdict, disturbed>>

LoadFails(p) ==
    /\ pc[p] = "load" /\ Refuses(p) /\ End(p, "failed")
    /\ UNCHANGED <<corpus, file, purpose, disturbed>>

\* lockstep; or the candidate does not load the rom.
Score(p) ==
    /\ pc[p] = "play" /\ Quit(p)
    /\ \E c \in got[p] : verdict' = [verdict EXCEPT ![p] = Scored(inputs[p], c)]
    /\ UNCHANGED <<corpus, file, purpose, disturbed>>

SkipCandidate(p) ==
    /\ pc[p] = "play" /\ End(p, "skipped")
    /\ UNCHANGED <<corpus, file, purpose, disturbed>>

Crash(p) ==
    /\ pc[p] # "idle" /\ End(p, "none")
    /\ UNCHANGED <<corpus, file, purpose, disturbed>>

Edit == corpus' \in Corpus \ {corpus} /\ UNCHANGED <<file, local, disturbed>>

Step(p) ==
    \/ Start(p) \/ ReadInputs(p) \/ ReadCell(p) \/ AlreadyCurrent(p) \/ Stale(p)
    \/ Create(p) \/ WriteCell(p) \/ WriteFails(p)
    \/ Load(p) \/ LoadFails(p) \/ Score(p) \/ SkipCandidate(p) \/ Crash(p)

Next == Edit \/ \E p \in Process : Step(p)

Spec == Init /\ [][Next]_vars

-----------------------------------------------------------------------------
(* Properties *)

\* A grade that has read its inputs works on the run they stand for.
RunOf(in) == [shows |-> Shows(in), frames |-> in.frames]
job == [p \in Process |-> IF pc[p] \in {"idle"} \cup Reading THEN {} ELSE {RunOf(inputs[p])}]
Promise == INSTANCE LiveGrading WITH Inputs <- {RunOf(in) : in \in Inputs}

\* A score with inputs, or of a recording made of inputs, whose reads an edit
\* of the corpus has separated.
ScoresMixed ==
    \E p \in Process : /\ pc[p] = "play" /\ pc'[p] = "idle"
                       /\ inputs[p] \notin WholeInputs \/ got[p] \cap MixedRecordings # {}

\* Whatever other graders, crashes and full disks leave in the file and
\* whatever the corpus was when it was written, a grade that comes to a score
\* has played the reference frames of its own inputs, unless the corpus was
\* edited between two reads of this grade or of the process that made the
\* recording (ref_cache.rs, the hash-based invalidation; main.rs,
\* grade_testcase).
ImplementsLiveGrading ==
    Promise!Init /\ [][Promise!Next \/ ScoresMixed]_<<job, verdict>>

\* A file left broken, truncated or stale by earlier processes never makes a
\* grade fail: it fails only when another process writes the file, or an
\* operation of its own fails, while it is at work (ref_cache.rs,
\* ensure_written before load).
FailsOnlyWhenDisturbed ==
    \A p \in Process : verdict[p].is = "failed" => disturbed[p]

\* Any change of the inputs invalidates the recording: every frame of a score
\* is compared with the reference's own, also after the number of frames of
\* the test case has changed (ref_cache.rs, load; CachedReference::run_frame).
ChangesInvalidate ==
    \A p \in Process : verdict[p].is = "scored" =>
        \A n \in DOMAIN verdict[p].ref : verdict[p].ref[n][2] = n
=============================================================================
