-------------------------- MODULE EmulatorSessions --------------------------
(***************************************************************************)
(* What the session interface of the oracle promises: every open session   *)
(* is an emulator of its own that stands still between the requests, holds *)
(* the keys last set and runs on from where it stopped.  What it shows and *)
(* plays is given by the keys of the frames it has run.                    *)
(***************************************************************************)
EXTENDS Naturals, Sequences, Functions

CONSTANTS
    Sid,      \* session ids
    Key,      \* states of the keypad, 0 for nothing pressed
    Count     \* frames one request runs

VARIABLES
    emu,      \* the open sessions' emulators
    served    \* the framebuffer or audio on its way to the client

NewEmulator == [keys |-> 0, ran |-> <<>>, screen |-> <<>>, sound |-> <<>>]

Init == emu = <<>> /\ served = <<>>

Open(sid) ==
    /\ sid \notin DOMAIN emu
    /\ emu' = [id \in DOMAIN emu \cup {sid} |-> IF id = sid THEN NewEmulator ELSE emu[id]]
    /\ UNCHANGED served

SetKeys(sid, keys) ==
    emu' = [emu EXCEPT ![sid].keys = keys] /\ UNCHANGED served

\* The sound of a run may be lost, never part of it.
RunFrames(sid, count) ==
    /\ LET run == emu[sid].ran \o [i \in 1 .. count |-> emu[sid].keys]
       IN  \E sound \in {run, <<>>} :
              emu' = [emu EXCEPT ![sid].ran = run, ![sid].screen = run, ![sid].sound = sound]
    /\ UNCHANGED served

ReadScreen(sid) == served' = emu[sid].screen /\ UNCHANGED emu

DrainSound(sid) ==
    served' = emu[sid].sound /\ emu' = [emu EXCEPT ![sid].sound = <<>>]

Sent == served' = <<>> /\ UNCHANGED emu

\* One session ended, or several reaped.
Close(sids) == emu' = Restrict(emu, DOMAIN emu \ sids) /\ UNCHANGED served

Next ==
    \/ Sent
    \/ \E sid \in Sid : Open(sid)
    \/ \E sid \in DOMAIN emu :
          \/ \E keys \in Key : SetKeys(sid, keys)
          \/ \E count \in Count : RunFrames(sid, count)
          \/ ReadScreen(sid) \/ DrainSound(sid)
    \/ \E sids \in SUBSET DOMAIN emu : Close(sids)

Spec == Init /\ [][Next]_<<emu, served>>
=============================================================================
