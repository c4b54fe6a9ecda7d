------------------------------- MODULE Oracle -------------------------------
(***************************************************************************)
(* The sessions of the oracle (oracle-server.py) and the command line they *)
(* run (the oracle's main.rs, run).  One thread answers the requests one   *)
(* after the other; the reaper's thread removes idle sessions between any  *)
(* two critical sections of it.  A session is a replay: run-frame runs the *)
(* reference again from the start to the new frame.  A frame is given by   *)
(* the keys of the frames up to it, time by ticks.                         *)
(***************************************************************************)
EXTENDS Naturals, Sequences, FiniteSets, FiniteSetsExt, Functions

CONSTANTS
    Sid, Key, Count,
    MAX_CONCURRENT_SESSIONS,
    MAX_EVENTS_PER_SESSION,
    SESSION_IDLE_TTL,
    MAX_WALL_SECONDS,         \* ticks a run may take
    MaxFrame                  \* bound: frames of a session

\* A run request is refused unless it is for one frame or more.
ASSUME OracleAssumption ==
    /\ Count \subseteq Nat \ {0}
    /\ SESSION_IDLE_TTL \in Nat /\ MAX_WALL_SECONDS \in Nat

VARIABLES
    sessions,   \* of the ids in its domain
    server      \* where the thread that answers is, and with what

vars == <<sessions, server>>

NewSession ==
    [cur_frame |-> 0, events |-> <<>>, last_fb |-> <<>>, last_audio |-> <<>>, idle |-> 0]

\* The request of a session: run goes to frame new_cur under these events.
Idle == [at |-> "idle"]
Replying(sid) == [at |-> "reply", sid |-> sid]
Sending(data) == [at |-> "send", data |-> data]
Run(sid, new_cur, events, elapsed) ==
    [at |-> "run", sid |-> sid, new_cur |-> new_cur, events |-> events, elapsed |-> elapsed]

Init == sessions = <<>> /\ server = Idle

-----------------------------------------------------------------------------
(* The reaper *)

\* Seeded fault: a session that has run nothing is not looked at.
Fresh_Unused ==
    {sid \in DOMAIN sessions :
        sessions[sid].idle <= SESSION_IDLE_TTL \/ sessions[sid].cur_frame = 0}

Fresh == {sid \in DOMAIN sessions : sessions[sid].idle <= SESSION_IDLE_TTL}
ReapIdle == sessions' = Restrict(sessions, Fresh)

Reaper == Fresh # DOMAIN sessions /\ ReapIdle /\ UNCHANGED server

\* A handler takes no tick between two critical sections unless it runs the
\* oracle, and that is killed after MAX_WALL_SECONDS.
Tick ==
    /\ server.at = "idle" \/ (server.at = "run" /\ server.elapsed < MAX_WALL_SECONDS)
    /\ sessions' = [sid \in DOMAIN sessions |->
          [sessions[sid] EXCEPT !.idle = Min({@ + 1, SESSION_IDLE_TTL + 1})]]
    /\ server' = IF server.at = "run" THEN [server EXCEPT !.elapsed = @ + 1] ELSE server

-----------------------------------------------------------------------------
(* Requests that reap first: start, framebuffer, audio and info *)

ReapFirst ==
    /\ server.at = "idle" /\ server' = [at |-> "reaped"] /\ ReapIdle

\* The code draws a fresh id for every session; an id may come again here, which
\* only adds behaviours.
Start(sid) ==
    /\ server.at = "reaped" /\ server' = Idle
    /\ sid \notin DOMAIN sessions /\ Cardinality(DOMAIN sessions) < MAX_CONCURRENT_SESSIONS
    /\ sessions' = [id \in DOMAIN sessions \cup {sid} |->
                      IF id = sid THEN NewSession ELSE sessions[id]]

\* An unknown session, too many of them, or a bad request.
Refuse ==
    server.at = "reaped" /\ server' = Idle /\ UNCHANGED sessions

Info(sid) ==
    /\ server.at = "reaped" /\ server' = Idle /\ sid \in DOMAIN sessions
    /\ sessions' = [sessions EXCEPT ![sid].idle = 0]

Framebuffer(sid) ==
    /\ server.at = "reaped" /\ sid \in DOMAIN sessions
    /\ sessions' = [sessions EXCEPT ![sid].idle = 0]
    /\ server' = Sending(sessions[sid].last_fb)

Audio(sid) ==
    /\ server.at = "reaped" /\ sid \in DOMAIN sessions
    /\ sessions' = [sessions EXCEPT ![sid].idle = 0, ![sid].last_audio = <<>>]
    /\ server' = Sending(sessions[sid].last_audio)

-----------------------------------------------------------------------------
(* Requests that do not *)

End(sid) ==
    /\ server.at = "idle" /\ sid \in DOMAIN sessions
    /\ sessions' = Restrict(sessions, DOMAIN sessions \ {sid})
    /\ UNCHANGED server

\* Seeded fault: every change of the keys is an event of its own.
WithKeys_Repeated(s, keys) == Append(s.events, <<s.cur_frame, keys>>)

\* Two events in one frame are one.
WithKeys(s, keys) ==
    LET n == Len(s.events)
    IN  IF n > 0 /\ s.events[n][1] = s.cur_frame
        THEN [s.events EXCEPT ![n] = <<s.cur_frame, keys>>]
        ELSE Append(s.events, <<s.cur_frame, keys>>)

\* Seeded fault: setting keys is no activity.
SetKeys_StaysIdle(sid, keys) ==
    /\ server.at = "idle" /\ sid \in DOMAIN sessions
    /\ Len(sessions[sid].events) < MAX_EVENTS_PER_SESSION
    /\ sessions' = [sessions EXCEPT ![sid].events = WithKeys(sessions[sid], keys)]
    /\ server' = Replying(sid)

SetKeys(sid, keys) ==
    /\ server.at = "idle" /\ sid \in DOMAIN sessions
    /\ Len(sessions[sid].events) < MAX_EVENTS_PER_SESSION
    /\ sessions' = [sessions EXCEPT ![sid].idle = 0,
                                    ![sid].events = WithKeys(sessions[sid], keys)]
    /\ server' = Replying(sid)

\* The ownership check of run-frame; the session is looked up again after it.
RunFrame(sid, count) ==
    /\ server.at = "idle" /\ sid \in DOMAIN sessions
    /\ sessions[sid].cur_frame + count <= MaxFrame   \* bound
    /\ server' = [at |-> "look_up", sid |-> sid, count |-> count]
    /\ UNCHANGED sessions

LookUp ==
    /\ server.at = "look_up"
    /\ LET sid == server.sid
       IN  server' = IF sid \in DOMAIN sessions
                     THEN Run(sid, sessions[sid].cur_frame + server.count,
                              sessions[sid].events, 0)
                     ELSE Idle
    /\ UNCHANGED sessions

\* Seeded fault: keys are held from the frame after their event's.
KeysAt_NextFrame(events, n) ==
    LET past == {i \in DOMAIN events : \A j \in 1 .. i : events[j][1] < n}
    IN  IF past = {} THEN 0 ELSE events[Max(past)][2]

\* cmd_run: the keys held in each frame, from the first on.
KeysAt(events, n) ==
    LET past == {i \in DOMAIN events : \A j \in 1 .. i : events[j][1] <= n}
    IN  IF past = {} THEN 0 ELSE events[Max(past)][2]
Replay(events, n) == [i \in 1 .. n |-> KeysAt(events, i - 1)]

\* The oracle's last frame and the audio of its whole run, unless the session
\* is gone; no audio if audio.wav cannot be read or ends in its header.
Finish ==
    /\ server.at = "run"
    /\ LET sid == server.sid
           run == Replay(server.events, server.new_cur)
       IN  IF sid \in DOMAIN sessions
           THEN /\ \E audio \in {run, <<>>} :
                      sessions' = [sessions EXCEPT
                          ![sid].cur_frame = server.new_cur, ![sid].idle = 0,
                          ![sid].last_fb = run, ![sid].last_audio = audio]
                /\ server' = Replying(sid)
           ELSE server' = Idle /\ UNCHANGED sessions

\* A bad replay, a trap, a full disk or MAX_WALL_SECONDS.
RunFails ==
    server.at = "run" /\ server' = Idle /\ UNCHANGED sessions

\* The reply looks the session up without a check: it must be there.
Reply ==
    /\ server.at = "reply" /\ server.sid \in DOMAIN sessions
    /\ server' = Idle
    /\ UNCHANGED sessions

\* A framebuffer or audio is sent after the lock is let go of.
Send == server.at = "send" /\ server' = Idle /\ UNCHANGED sessions

Handler == Refuse \/ LookUp \/ Finish \/ RunFails \/ Reply \/ Send

Next ==
    \/ Reaper \/ Tick \/ ReapFirst \/ Handler
    \/ \E sid \in Sid :
          \/ Start(sid) \/ Info(sid) \/ Framebuffer(sid) \/ Audio(sid)
          \/ End(sid)
          \/ \E count \in Count : RunFrame(sid, count)
          \/ \E keys \in Key : SetKeys(sid, keys)

\* The reaper's thread runs on, a request is answered, and time passes however
\* many requests there are: no stretch of it is without a tick for ever.
Fairness == WF_vars(Reaper) /\ WF_vars(Handler) /\ SF_vars(Tick)

Spec == Init /\ [][Next]_vars /\ Fairness

-----------------------------------------------------------------------------
(* Properties *)

Play == Seq(Key \cup {0})
Events == Seq(Nat \X Key)
Session ==
    [cur_frame : Nat, events : Events, last_fb : Play, last_audio : Play,
     idle : 0 .. SESSION_IDLE_TTL + 1]
Request ==
    [at : {"idle", "reaped"}] \cup [at : {"reply"}, sid : Sid]
      \cup [at : {"send"}, data : Play] \cup [at : {"look_up"}, sid : Sid, count : Count]
      \cup [at : {"run"}, sid : Sid, new_cur : Nat, events : Events,
            elapsed : 0 .. MAX_WALL_SECONDS]

\* The sessions are functions of ids in use, and no run outlives its time limit
\* (oracle-server.py, the registry of sessions and the subprocess's timeout).
TypeOK ==
    /\ DOMAIN sessions \subseteq Sid /\ sessions \in [DOMAIN sessions -> Session]
    /\ server \in Request

\* The emulator a session stands for.
EmulatorOf(s) ==
    [keys |-> IF s.events = <<>> THEN 0 ELSE s.events[Len(s.events)][2],
     ran |-> Replay(s.events, s.cur_frame),
     screen |-> s.last_fb, sound |-> s.last_audio]
Emu == [sid \in DOMAIN sessions |-> EmulatorOf(sessions[sid])]
Served == IF server.at = "send" THEN server.data ELSE <<>>

\* Running the reference again from its first frame under the accumulated and
\* coalesced events is what an emulator that goes on would do, whatever runs
\* fail, time out or lose their session on the way (oracle-server.py,
\* _session_run_frames and set-keys; the oracle's main.rs, cmd_run).
Emulators == INSTANCE EmulatorSessions WITH emu <- Emu, served <- Served
ImplementsEmulators == Emulators!Spec

EventsInOrder(s) ==
    /\ \A i, j \in DOMAIN s.events : i < j => s.events[i][1] < s.events[j][1]
    /\ \A i \in DOMAIN s.events : s.events[i][1] <= s.cur_frame

\* The replay of a session has one line a frame at most, in the order that its
\* reader relies on, and none for a frame to come: keys set later never change
\* what a run has shown (oracle-server.py, set-keys and _write_replay;
\* replay.rs, InputReplay and keys_at).
ReplayInOrder == \A sid \in DOMAIN sessions : EventsInOrder(sessions[sid])

\* The reply to set-keys and run-frame finds the session it is about although
\* the reaper may run after the handler has let go of the lock: the handler has
\* refreshed the session, after a run once it has looked it up again
\* (oracle-server.py, the replies of set-keys and run-frame).
ReplyFindsSession == server.at = "reply" => server.sid \in DOMAIN sessions

\* A session its client has left, also one whose runs fail or whose client
\* goes away during a run, gives its place back: it is removed or somebody uses
\* it again and again (oracle-server.py, _reap_idle).
AbandonedSessionsEnd ==
    \A sid \in Sid : []<>(sid \in DOMAIN sessions => sessions[sid].idle = 0)

\* The audio a client can read is what was played since it last read it
\* (oracle-server.py, the table of sessions).
AudioSinceLastDrain ==
    [][\A sid \in DOMAIN sessions \cap DOMAIN sessions' :
          sessions[sid].last_audio = <<>> =>
              Len(sessions'[sid].last_audio)
                  <= sessions'[sid].cur_frame - sessions[sid].cur_frame]_vars
=============================================================================
