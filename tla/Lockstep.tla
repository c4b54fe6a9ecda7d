------------------------------ MODULE Lockstep ------------------------------
(***************************************************************************)
(* One test case from the reference's recording to the comparison: the     *)
(* recording of ref_cache.rs (write), its playback (CachedReference), the  *)
(* fuelled guests of wasm_candidate.rs with the buffers of the C ABI shim, *)
(* and the loop of lockstep/lib.rs that drives both sides.  An emulator is *)
(* deterministic: what it shows and plays is given by its slices, the      *)
(* calls of run_frame so far with the keys they ran under.  A call that    *)
(* traps leaves its frame to the next one.                                 *)
(***************************************************************************)
EXTENDS Naturals, Integers, Sequences, FiniteSetsExt, SequencesExt

CONSTANTS
    Replays,               \* input replays: sequences of events <<frame, keys>>
    Frames,                \* frames of the test case
    RefBoot,               \* boot frames the reference exports
    CandBoot,              \* and the candidate
    candidate_boot_frames, \* those the configuration adds for the candidate
    AUDIO_BUF,             \* slices whose samples the shim's buffer holds
    Outcome,               \* how a call may end: [whole, left]
    RefOutcomes            \* how the reference's calls end, one after the other

ASSUME LockstepAssumption ==
    /\ Frames \in Nat /\ RefBoot \in Nat /\ CandBoot \in Nat /\ candidate_boot_frames \in Nat
    /\ AUDIO_BUF \in Nat \ {0}
    /\ Outcome \subseteq [whole : BOOLEAN, left : BOOLEAN]
    /\ RefOutcomes \subseteq [1 .. RefBoot + Frames -> [whole : BOOLEAN, left : BOOLEAN]]

VARIABLES
    replay, outcomes,   \* of this test case
    phase,              \* "record", "boot", "lockstep" or "scored"
    ref, cand, live,    \* the guests; live is a reference beside the cached one
    cache,              \* the recording
    cursor, offset,     \* CachedReference
    frame,              \* iterations of the phase's loop
    seen,               \* history: what the last frame showed and played
    cand_audio

guests == <<ref, cand, live>>
lockstepVars ==
    <<replay, outcomes, phase, guests, cache, cursor, offset, frame, seen, cand_audio>>

-----------------------------------------------------------------------------
(* The replay *)

\* Keys held during frame n: the scan stops at the first later event.
KeysAt(n) ==
    LET past == {i \in DOMAIN replay : \A j \in 1 .. i : replay[j][1] <= n}
    IN  IF past = {} THEN 0 ELSE replay[Max(past)][2]

-----------------------------------------------------------------------------
(* A guest and its host *)

\* load_rom refuels; the host's framebuffer is zero.
NewGuest ==
    [keys |-> 0, slices |-> <<>>,   \* latched keys and calls of run_frame
     sounded |-> 0,                 \* slices whose samples the shim has taken
     AUDIO |-> <<>>,                \* slices in its buffer, AUDIO_PAIRS of them
     fuel |-> TRUE,                 \* enough for the calls that do little
     fb_local |-> <<>>]

\* Not refuelled: without fuel the call traps and the guest keeps its keys.
SetKeys(g, keys) == IF g.fuel THEN [g EXCEPT !.keys = keys] ELSE g

\* Refuelled.  A trap keeps fb_local and leaves the shim before its buffer.
RunFrame(g, outcome) ==
    LET run == Append(g.slices, [keys |-> g.keys, clean |-> outcome.whole /\ outcome.left])
        new == SubSeq(run, g.sounded + 1, Len(run))
    IN  IF outcome.whole
        THEN [g EXCEPT !.slices = run, !.fuel = outcome.left, !.fb_local = run,
                       !.sounded = Len(run),
                       !.AUDIO = [i \in 1 .. Min({AUDIO_BUF, Len(new)}) |-> g.sounded + i]]
        ELSE [g EXCEPT !.slices = run, !.fuel = outcome.left]

Drained(g) == IF g.fuel THEN g.AUDIO ELSE <<>>

\* Seeded fault: the write head is not reset.
DrainAudio_KeepsPairs(g) == g

DrainAudio(g) == IF g.fuel THEN [g EXCEPT !.AUDIO = <<>>] ELSE g

\* One frame of boot time, its samples discarded.
Boot(g, outcome) == DrainAudio(RunFrame(g, outcome))

\* One frame under the replay's keys, its samples still in the buffer.
Frame(g, n, outcome) == RunFrame(SetKeys(g, KeysAt(n)), outcome)

-----------------------------------------------------------------------------
(* The recording and its playback *)

Nothing == [frames |-> <<>>, samples_per_frame |-> <<>>, audio |-> <<>>]

Record(g) ==
    [frames |-> Append(cache.frames, g.fb_local),
     samples_per_frame |-> Append(cache.samples_per_frame, Len(Drained(g))),
     audio |-> cache.audio \o Drained(g)]

\* Seeded fault: the playback burns the live reference's boot frames again.
CachedBoot_Live == RefBoot

\* The writer has burned them.
CachedBoot == 0

Recorded(c) == 0 <= c /\ c < Len(cache.frames)

\* Seeded fault: a frame's samples are those after as many full frames.
CachedAudio_FixedStride(c) ==
    IF Recorded(c)
    THEN SubSeq(cache.audio, c + 1, c + cache.samples_per_frame[c + 1]) ELSE <<>>

CachedAudio(c) ==
    IF Recorded(c)
    THEN SubSeq(cache.audio, offset + 1, offset + cache.samples_per_frame[c + 1]) ELSE <<>>

\* Past the end the frame before stays.
CachedFrame(c) == IF Recorded(c) THEN cache.frames[c + 1] ELSE seen.cached.fb

-----------------------------------------------------------------------------
(* The phases *)

LockstepInit ==
    /\ replay \in Replays /\ outcomes \in RefOutcomes
    /\ phase = "record"
    /\ ref = NewGuest /\ cand = NewGuest /\ live = NewGuest
    /\ cache = Nothing /\ cursor = -1 /\ offset = 0 /\ frame = 0
    /\ seen = [side \in {"cached", "live", "cand"} |-> [fb |-> <<>>, audio |-> <<>>]]
    /\ cand_audio = <<>>

\* write: the boot frames, then the test case's.
RecordBoot ==
    /\ phase = "record" /\ Len(ref.slices) < RefBoot
    /\ ref' = Boot(ref, outcomes[Len(ref.slices) + 1])
    /\ UNCHANGED <<replay, outcomes, phase, cand, live, cache, cursor, offset, frame, seen, cand_audio>>

RecordFrame ==
    /\ phase = "record" /\ Len(ref.slices) >= RefBoot /\ frame < Frames
    /\ LET ran == Frame(ref, frame, outcomes[Len(ref.slices) + 1])
       IN  ref' = DrainAudio(ran) /\ cache' = Record(ran)
    /\ frame' = frame + 1
    /\ UNCHANGED <<replay, outcomes, phase, cand, live, cursor, offset, seen, cand_audio>>

\* The cache is written, loaded again and played from its start.  The grader
\* runs the configured boot frames of the candidate, whose samples it leaves.
Grade ==
    /\ phase = "record" /\ Len(ref.slices) >= RefBoot /\ frame = Frames
    /\ phase' = "boot" /\ frame' = 0
    /\ UNCHANGED <<replay, outcomes, guests, cache, cursor, offset, seen, cand_audio>>

ConfiguredBoot(outcome) ==
    /\ phase = "boot" /\ Len(cand.slices) < candidate_boot_frames
    /\ cand' = RunFrame(cand, outcome)
    /\ UNCHANGED <<replay, outcomes, phase, ref, live, cache, cursor, offset, frame, seen, cand_audio>>

\* lockstep burns the boot frames of both sides.
LockstepBoot(outcome) ==
    /\ phase = "boot" /\ Len(cand.slices) >= candidate_boot_frames
    /\ Len(cand.slices) < candidate_boot_frames + CandBoot
    /\ cand' = Boot(cand, outcome)
    /\ UNCHANGED <<replay, outcomes, phase, ref, live, cache, cursor, offset, frame, seen, cand_audio>>

LiveBoot ==
    /\ phase = "boot" /\ Len(live.slices) < RefBoot
    /\ live' = Boot(live, outcomes[Len(live.slices) + 1])
    /\ UNCHANGED <<replay, outcomes, phase, ref, cand, cache, cursor, offset, frame, seen, cand_audio>>

StartLockstep ==
    /\ phase = "boot" /\ Len(live.slices) = RefBoot
    /\ Len(cand.slices) = candidate_boot_frames + CandBoot
    /\ phase' = "lockstep" /\ cursor' = cursor + CachedBoot
    /\ UNCHANGED <<replay, outcomes, guests, cache, offset, frame, seen, cand_audio>>

\* One iteration of lockstep.  A cached reference ignores the keys.
Compare(outcome) ==
    /\ phase = "lockstep" /\ frame < Frames
    /\ LET c == Frame(cand, frame, outcome)
           l == Frame(live, frame, outcomes[Len(live.slices) + 1])
           audio == CachedAudio(cursor + 1)
       IN  /\ seen' = [cached |-> [fb |-> CachedFrame(cursor + 1), audio |-> audio],
                       live |-> [fb |-> l.fb_local, audio |-> Drained(l)],
                       cand |-> [fb |-> c.fb_local, audio |-> Drained(c)]]
           /\ cursor' = cursor + 1 /\ offset' = offset + Len(audio)
           /\ cand_audio' = cand_audio \o Drained(c)
           /\ cand' = DrainAudio(c) /\ live' = DrainAudio(l)
    /\ frame' = frame + 1
    /\ UNCHANGED <<replay, outcomes, phase, ref, cache>>

ScoreLockstep ==
    /\ phase = "lockstep" /\ frame = Frames /\ phase' = "scored"
    /\ UNCHANGED <<replay, outcomes, guests, cache, cursor, offset, frame, seen, cand_audio>>

LockstepNext ==
    \/ RecordBoot \/ RecordFrame \/ Grade \/ LiveBoot \/ StartLockstep
    \/ ScoreLockstep
    \/ \E outcome \in Outcome :
          ConfiguredBoot(outcome) \/ LockstepBoot(outcome) \/ Compare(outcome)

LockstepSpec == LockstepInit /\ [][LockstepNext]_lockstepVars

-----------------------------------------------------------------------------
(* Properties *)

\* Grading from the cache is grading against the reference itself: in every
\* frame the recording shows and plays what a live reference, its boot frames
\* burned, shows and plays beside the candidate, also where the reference
\* traps and its frames have uneven numbers of samples (ref_cache.rs, write
\* and CachedReference; lockstep/lib.rs, the boot loops).
CachedPlaysLikeLive == phase # "record" => seen.cached = seen.live

\* No call trapped or ran out of fuel.
Clean(g) == \A i \in DOMAIN g.slices : g.slices[i].clean

\* The side shows what the replay's keys up to this frame lead to, and plays
\* the samples of this frame.
FollowsReplay(side, boot) ==
    /\ side.fb = [i \in 1 .. boot + frame |->
                    [keys |-> IF i <= boot THEN 0 ELSE KeysAt(i - boot - 1), clean |-> TRUE]]
    /\ side.audio = <<boot + frame>>

\* Frame N means the same thing on both sides, frame N of the replay: as long
\* as no call of a side traps or runs out of fuel it shows the keys up to N and
\* plays the samples of N alone, whatever its warm-up is and wherever that is
\* burned (lockstep/lib.rs, boot_frames; main.rs, candidate_boot_frames).
FramesAlign ==
    (phase \in {"lockstep", "scored"} /\ frame > 0) =>
        /\ Clean(live) => FollowsReplay(seen.cached, RefBoot)
        /\ Clean(cand) => FollowsReplay(seen.cand, candidate_boot_frames + CandBoot)

\* No sample of the candidate is heard twice or out of order, whatever its
\* calls come to (wasm_candidate.rs, drain_audio; the shim's AUDIO_PAIRS).
SamplesOnce ==
    \A i, j \in DOMAIN cand_audio : i < j => cand_audio[i] < cand_audio[j]
=============================================================================
