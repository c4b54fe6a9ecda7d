---------------------------- MODULE OracleProofs ----------------------------
(***************************************************************************)
(* Proofs about the oracle's sessions, for any number of them, any keys,   *)
(* limits and frame counts: a reply finds its session, a replay is in      *)
(* order, and running it again from its first frame is what an emulator    *)
(* that goes on would do.                                                  *)
(***************************************************************************)
EXTENDS Oracle, SequenceTheorems, WellFoundedInduction, TLAPS

\* The invariant: the session of a request that waits for its reply was used a
\* moment ago, and a run is under way from where its session still is.
ReplyIsFresh ==
    server.at = "reply" =>
        /\ server.sid \in DOMAIN sessions
        /\ sessions[server.sid].idle <= SESSION_IDLE_TTL
RunIsNext ==
    server.at = "run" /\ server.sid \in DOMAIN sessions =>
        /\ server.events = sessions[server.sid].events
        /\ \E count \in Count :
              server.new_cur = sessions[server.sid].cur_frame + count

OracleInv == TypeOK /\ ReplayInOrder /\ ReplyIsFresh /\ RunIsNext

-----------------------------------------------------------------------------
(* Numbers, the last event and the replay *)

\* A set of naturals that is not empty has a least element.
LEMMA LeastExists ==
    ASSUME NEW S, S \subseteq Nat, S # {}
    PROVE  \E m \in S : \A k \in S : m <= k
<1> DEFINE R == {p \in Nat \X Nat : p[1] < p[2]}
<1>1. IsWellFoundedOn(R, Nat)
  BY NatLessThanWellFounded DEF OpToRel
<1>2. \A n, k \in Nat : n < k => <<n, k>> \in R
  OBVIOUS
<1> HIDE DEF R
<1>3. PICK m \in S : \A k \in S : <<k, m>> \notin R
  BY <1>1, WFMin, Zenon
<1>4. \A k \in S : m <= k
  <2> SUFFICES ASSUME NEW k \in S, k < m PROVE FALSE
    OBVIOUS
  <2> QED BY <1>2, <1>3
<1> QED BY <1>4

\* And one within bounds has a greatest, the one Max chooses.
LEMMA MaxOfSome ==
    ASSUME NEW n \in Nat, NEW S, S \subseteq 1 .. n, S # {}
    PROVE  Max(S) \in S /\ \A k \in S : Max(S) >= k
<1> DEFINE T == {n - i : i \in S}
<1>1. \A i \in S : n - i \in Nat
  OBVIOUS
<1>0. T \subseteq Nat /\ T # {}
  BY <1>1
<1> HIDE DEF T
<1>2. PICK m \in T : \A k \in T : m <= k
  BY <1>0, LeastExists
<1>3. PICK i \in S : m = n - i
  BY DEF T
<1>4. \A k \in S : i >= k
  <2> SUFFICES ASSUME NEW k \in S PROVE i >= k
    OBVIOUS
  <2>1. n - k \in T
    BY DEF T
  <2> QED BY <2>1, <1>2, <1>3
<1> QED BY <1>4 DEF Max

\* The least of two numbers, as Min chooses it.
LEMMA MinOfTwo ==
    ASSUME NEW a \in Nat, NEW b \in Nat
    PROVE  Min({a, b}) = IF a <= b THEN a ELSE b
BY DEF Min

\* Keys are held on: from the current frame on they are those set last.
LEMMA KeysFromLastEvent ==
    ASSUME NEW s \in Session, EventsInOrder(s), NEW n \in Nat, n >= s.cur_frame
    PROVE  KeysAt(s.events, n) = EmulatorOf(s).keys
<1> DEFINE past == {i \in DOMAIN s.events : \A j \in 1 .. i : s.events[j][1] <= n}
<1>1. /\ s.events \in Seq(Nat \X Key) /\ Len(s.events) \in Nat
      /\ DOMAIN s.events = 1 .. Len(s.events) /\ s.cur_frame \in Nat
  BY DEF Session, Events
<1>2. \A i \in DOMAIN s.events : s.events[i][1] \in Nat
  BY <1>1
<1>3. past = 1 .. Len(s.events)
  <2>1. \A j \in 1 .. Len(s.events) : s.events[j][1] <= n
    <3>1. \A j \in DOMAIN s.events : s.events[j][1] <= s.cur_frame
      BY DEF EventsInOrder
    <3> SUFFICES ASSUME NEW j \in 1 .. Len(s.events) PROVE s.events[j][1] <= n
      OBVIOUS
    <3>2. s.events[j][1] \in Nat /\ s.events[j][1] <= s.cur_frame
      BY <3>1, <1>1, <1>2
    <3> QED BY <3>2, <1>1
  <2>2. \A i \in 1 .. Len(s.events) : 1 .. i \subseteq 1 .. Len(s.events)
    BY <1>1
  <2> QED BY <1>1, <2>1, <2>2
<1> HIDE DEF past
<1>4. CASE s.events = <<>>
  <2>1. past = {}
    BY <1>3, <1>4
  <2> QED BY <2>1, <1>4 DEF KeysAt, EmulatorOf, past
<1>5. CASE s.events # <<>>
  <2>1. Len(s.events) >= 1
    BY <1>1, <1>5
  <2>2. past # {} /\ Max(past) = Len(s.events)
    <3>1. past # {} /\ past \subseteq 1 .. Len(s.events) /\ Len(s.events) \in past
      BY <1>1, <1>3, <2>1
    <3>2. Max(past) \in past /\ \A k \in past : Max(past) >= k
      BY <1>1, <3>1, MaxOfSome
    <3>3. Max(past) \in 1 .. Len(s.events) /\ Max(past) >= Len(s.events)
      BY <3>1, <3>2
    <3> QED BY <1>1, <3>1, <3>3
  <2> QED BY <2>2, <1>5 DEF KeysAt, EmulatorOf, past
<1> QED BY <1>4, <1>5

\* Setting keys in the current frame keeps the replay in order, makes them the
\* keys held, and changes nothing that was held in an earlier frame.
LEMMA WithKeysInOrder ==
    ASSUME NEW s \in Session, EventsInOrder(s), NEW keys \in Key
    PROVE  LET t == [s EXCEPT !.events = WithKeys(s, keys)]
           IN  /\ WithKeys(s, keys) \in Events
               /\ EventsInOrder(t)
               /\ EmulatorOf(t).keys = keys
               /\ \A n \in Nat : n < s.cur_frame =>
                     KeysAt(t.events, n) = KeysAt(s.events, n)
<1> DEFINE old == s.events
           new == WithKeys(s, keys)
           cur == s.cur_frame
           len == Len(old)
           replaced == len > 0 /\ old[len][1] = cur
           k == IF replaced THEN len ELSE len + 1
           t == [s EXCEPT !.events = new]
<1>1. /\ old \in Seq(Nat \X Key) /\ len \in Nat /\ DOMAIN old = 1 .. len
      /\ cur \in Nat /\ DOMAIN s = {"cur_frame", "events", "last_fb", "last_audio", "idle"}
  BY DEF Session, Events
<1>2. \A i \in 1 .. len : old[i] \in Nat \X Key /\ old[i][1] \in Nat /\ old[i][1] <= cur
  BY <1>1 DEF EventsInOrder
<1>3. \A i, j \in 1 .. len : i < j => old[i][1] < old[j][1]
  BY <1>1 DEF EventsInOrder
<1>4. /\ k \in Nat /\ k >= 1 /\ (k = len \/ k = len + 1)
      /\ new \in Seq(Nat \X Key) /\ Len(new) = k /\ DOMAIN new = 1 .. k
      /\ new[k] = <<cur, keys>>
      /\ \A i \in 1 .. k - 1 : new[i] = old[i] /\ i \in 1 .. len /\ old[i][1] < cur
      /\ k = len => old[len][1] = cur
  <2>1. CASE replaced
    <3>1. new = [old EXCEPT ![len] = <<cur, keys>>]
      BY <2>1 DEF WithKeys
    <3>2. ASSUME NEW i \in 1 .. len - 1 PROVE old[i][1] < cur
      <4>1. i \in 1 .. len /\ len \in 1 .. len /\ i < len
        BY <1>1
      <4> QED BY <4>1, <2>1, <1>3
    <3>3. new \in Seq(Nat \X Key) /\ Len(new) = len /\ DOMAIN new = 1 .. len
      <4>1. <<cur, keys>> \in Nat \X Key /\ len \in 1 .. len
        BY <2>1, <1>1
      <4> HIDE DEF old, cur
      <4> QED BY <3>1, <4>1, <1>1, ExceptSeq
    <3>4. new[len] = <<cur, keys>> /\ \A i \in 1 .. len - 1 : new[i] = old[i]
      BY <3>1, <2>1, <1>1
    <3> QED BY <3>2, <3>3, <3>4, <2>1, <1>1
  <2>2. CASE ~replaced
    <3>1. new = Append(old, <<cur, keys>>)
      BY <2>2 DEF WithKeys
    <3>2. \A i \in 1 .. len : old[i][1] < cur
      <4> SUFFICES ASSUME NEW i \in 1 .. len PROVE old[i][1] < cur
        OBVIOUS
      <4>1. old[len][1] \in Nat /\ old[len][1] < cur
        BY <2>2, <1>1, <1>2
      <4> QED BY <4>1, <1>1, <1>2, <1>3
    <3>3. new \in Seq(Nat \X Key) /\ Len(new) = len + 1 /\ DOMAIN new = 1 .. len + 1
      BY <3>1, <1>1
    <3>4. new[len + 1] = <<cur, keys>> /\ \A i \in 1 .. len : new[i] = old[i]
      BY <3>1, <1>1
    <3> QED BY <3>2, <3>3, <3>4, <2>2, <1>1
  <2> QED BY <2>1, <2>2
<1>5. t.events = new /\ t.cur_frame = cur
  BY <1>1
<1> HIDE DEF new, t, k
<1>6. EventsInOrder(t)
  <2>1. ASSUME NEW i \in 1 .. k PROVE new[i][1] \in Nat /\ new[i][1] <= cur
    <3>1. CASE i = k
      BY <3>1, <1>4, <1>1
    <3>2. CASE i # k
      <4>1. i \in 1 .. k - 1
        BY <3>2, <1>4
      <4>2. i \in 1 .. len /\ new[i][1] = old[i][1]
        BY <4>1, <1>4
      <4> QED BY <4>2, <1>2
    <3> QED BY <3>1, <3>2
  <2>2. ASSUME NEW i \in 1 .. k, NEW j \in 1 .. k, i < j PROVE new[i][1] < new[j][1]
    <3>1. CASE j = k
      BY <3>1, <2>2, <1>1, <1>4
    <3>2. CASE j # k
      <4>1. i \in 1 .. k - 1 /\ j \in 1 .. k - 1
        BY <3>2, <2>2, <1>4
      <4>2. /\ i \in 1 .. len /\ j \in 1 .. len
            /\ new[i][1] = old[i][1] /\ new[j][1] = old[j][1]
        BY <4>1, <1>4
      <4> QED BY <4>2, <2>2, <1>3
    <3> QED BY <3>1, <3>2
  <2> QED BY <2>1, <2>2, <1>4, <1>5 DEF EventsInOrder
<1>7. EmulatorOf(t).keys = keys
  <2>1. new # <<>> /\ new[Len(new)][2] = keys
    BY <1>4
  <2> QED BY <2>1, <1>5 DEF EmulatorOf
<1>8. ASSUME NEW n \in Nat, n < cur PROVE KeysAt(new, n) = KeysAt(old, n)
  <2> DEFINE past(e) == {i \in DOMAIN e : \A j \in 1 .. i : e[j][1] <= n}
  <2>1. past(new) \subseteq 1 .. k - 1
    BY <1>4, <1>8, <1>1
  <2>2. past(old) \subseteq 1 .. k - 1
    BY <1>4, <1>8, <1>1
  <2>3. \A i \in 1 .. k - 1 : i \in past(new) <=> i \in past(old)
    <3> SUFFICES ASSUME NEW i \in 1 .. k - 1 PROVE i \in past(new) <=> i \in past(old)
      OBVIOUS
    <3>1. \A j \in 1 .. i : new[j] = old[j]
      BY <1>4
    <3>2. i \in DOMAIN new /\ i \in DOMAIN old
      BY <1>1, <1>4
    <3> QED BY <3>1, <3>2
  <2>4. past(new) = past(old)
    BY <2>1, <2>2, <2>3
  <2> DEFINE common == past(new)
  <2>5. common # {} => Max(common) \in 1 .. k - 1
    BY <2>1, <1>4, MaxOfSome
  <2>6. /\ KeysAt(new, n) = IF common = {} THEN 0 ELSE new[Max(common)][2]
        /\ KeysAt(old, n) = IF common = {} THEN 0 ELSE old[Max(common)][2]
    BY <2>4 DEF KeysAt
  <2> HIDE DEF common
  <2> QED BY <2>5, <2>6, <1>4
<1> QED BY <1>4, <1>5, <1>6, <1>7, <1>8 DEF Events, new, t

\* A replay is a sequence of keys, one for each of its frames.
LEMMA ReplayTypeOK ==
    ASSUME NEW events \in Events, NEW n \in Nat
    PROVE  Replay(events, n) \in Play /\ Len(Replay(events, n)) = n
<1>1. \A m \in Nat : KeysAt(events, m) \in Key \cup {0}
  <2> SUFFICES ASSUME NEW m \in Nat PROVE KeysAt(events, m) \in Key \cup {0}
    OBVIOUS
  <2> DEFINE past == {i \in DOMAIN events : \A j \in 1 .. i : events[j][1] <= m}
  <2>1. Len(events) \in Nat /\ past \subseteq 1 .. Len(events)
    BY DEF Events
  <2>2. past # {} => Max(past) \in 1 .. Len(events)
    BY <2>1, MaxOfSome
  <2>3. KeysAt(events, m) = IF past = {} THEN 0 ELSE events[Max(past)][2]
    BY DEF KeysAt
  <2> HIDE DEF past
  <2> QED BY <2>1, <2>2, <2>3 DEF Events
<1>2. \A i \in 1 .. n : i - 1 \in Nat
  OBVIOUS
<1> QED BY <1>1, <1>2 DEF Replay, Play

\* Running a session again for some more frames goes on from where it is.
LEMMA ReplayGoesOn ==
    ASSUME NEW s \in Session, EventsInOrder(s), NEW count \in Nat
    PROVE  Replay(s.events, s.cur_frame + count)
             = Replay(s.events, s.cur_frame) \o [i \in 1 .. count |-> EmulatorOf(s).keys]
<1> DEFINE cur == s.cur_frame
           keys == EmulatorOf(s).keys
           before == Replay(s.events, cur)
           more == [i \in 1 .. count |-> keys]
           after == Replay(s.events, cur + count)
<1>1. cur \in Nat /\ s.events \in Events
  BY DEF Session
<1>2. \A i \in 1 .. cur : i - 1 \in Nat
  BY <1>1
<1>3. \A i \in cur + 1 .. cur + count : KeysAt(s.events, i - 1) = keys
  <2> SUFFICES ASSUME NEW i \in cur + 1 .. cur + count PROVE KeysAt(s.events, i - 1) = keys
    OBVIOUS
  <2>1. i - 1 \in Nat /\ i - 1 >= cur
    BY <1>1
  <2> QED BY <2>1, KeysFromLastEvent
<1>4. before \in Seq(Key \cup {0}) /\ Len(before) = cur
  BY <1>1, ReplayTypeOK DEF Play
<1>5. after \in Seq(Key \cup {0}) /\ Len(after) = cur + count
  BY <1>1, ReplayTypeOK DEF Play
<1>6. \A i \in 1 .. cur : before[i] = after[i]
  BY <1>1 DEF Replay
<1>7. \A i \in cur + 1 .. cur + count : after[i] = keys
  BY <1>1, <1>3 DEF Replay
<1> HIDE DEF before, after, keys, cur
<1>8. more \in Seq({keys}) /\ Len(more) = count /\ \A i \in 1 .. count : more[i] = keys
  OBVIOUS
<1> HIDE DEF more
<1>9. before \o more = after
  <2>1. before \o more \in Seq(Key \cup {0} \cup {keys}) /\ after \in Seq(Key \cup {0} \cup {keys})
    BY <1>4, <1>5, <1>8
  <2>2. Len(before \o more) = Len(after)
    BY <1>4, <1>5, <1>8, <1>1
  <2>3. ASSUME NEW i \in 1 .. cur + count PROVE (before \o more)[i] = after[i]
    <3>1. CASE i <= cur
      BY <3>1, <1>1, <1>4, <1>6, <1>8
    <3>2. CASE i > cur
      BY <3>2, <1>1, <1>4, <1>7, <1>8
    <3>3. i <= cur \/ i > cur
      BY <1>1
    <3> QED BY <3>1, <3>2, <3>3
  <2> QED BY <2>1, <2>2, <2>3, <1>5
<1> QED BY <1>9 DEF before, after, keys, cur, more

-----------------------------------------------------------------------------
(* The invariant *)

LEMMA OracleInitInv == ASSUME Init PROVE OracleInv
<1>1. DOMAIN sessions = {} /\ sessions \in [{} -> Session]
  BY DEF Init
<1>2. server \in Request /\ server.at = "idle"
  BY DEF Init, Idle, Request
<1> QED BY <1>1, <1>2 DEF OracleInv, TypeOK, ReplayInOrder, ReplyIsFresh, RunIsNext

\* Replacing one session by another one in order keeps what holds of them all.
LEMMA ReplaceSession ==
    ASSUME OracleInv, NEW sid \in DOMAIN sessions,
           NEW t \in Session, EventsInOrder(t),
           sessions' = [sessions EXCEPT ![sid] = t]
    PROVE  /\ DOMAIN sessions' = DOMAIN sessions
           /\ DOMAIN sessions' \subseteq Sid /\ sessions' \in [DOMAIN sessions' -> Session]
           /\ ReplayInOrder'
           /\ sessions'[sid] = t
           /\ \A id \in DOMAIN sessions : id # sid => sessions'[id] = sessions[id]
<1>1. /\ DOMAIN sessions' = DOMAIN sessions
      /\ DOMAIN sessions' \subseteq Sid /\ sessions' \in [DOMAIN sessions' -> Session]
  BY DEF OracleInv, TypeOK
<1>2. sessions'[sid] = t /\ \A id \in DOMAIN sessions : id # sid => sessions'[id] = sessions[id]
  BY DEF OracleInv, TypeOK
<1>3. ASSUME NEW id \in DOMAIN sessions' PROVE EventsInOrder(sessions'[id])
  <2>1. id # sid => EventsInOrder(sessions[id])
    BY <1>1, <1>3 DEF OracleInv, ReplayInOrder
  <2> QED BY <2>1, <1>1, <1>2
<1> QED BY <1>1, <1>2, <1>3 DEF ReplayInOrder

\* Leaving sessions out keeps what holds of them all.
LEMMA RestrictSessions ==
    ASSUME OracleInv, NEW sids, sids \subseteq DOMAIN sessions,
           sessions' = Restrict(sessions, sids)
    PROVE  /\ DOMAIN sessions' = sids
           /\ DOMAIN sessions' \subseteq Sid /\ sessions' \in [DOMAIN sessions' -> Session]
           /\ ReplayInOrder'
           /\ \A id \in sids : sessions'[id] = sessions[id]
<1>1. DOMAIN sessions' = sids /\ \A id \in sids : sessions'[id] = sessions[id]
  BY DEF Restrict
<1>2. sessions' \in [sids -> Session]
  BY DEF Restrict, OracleInv, TypeOK
<1>3. ReplayInOrder'
  BY <1>1 DEF OracleInv, ReplayInOrder
<1> QED BY <1>1, <1>2, <1>3 DEF OracleInv, TypeOK

LEMMA ReaperInv ==
    ASSUME OracleInv, ReapIdle, server' = server \/ server' = [at |-> "reaped"]
    PROVE  OracleInv'
<1>1. /\ Fresh \subseteq DOMAIN sessions /\ DOMAIN sessions' = Fresh
      /\ DOMAIN sessions' \subseteq Sid /\ sessions' \in [DOMAIN sessions' -> Session]
      /\ ReplayInOrder' /\ \A id \in Fresh : sessions'[id] = sessions[id]
  <2>1. Fresh \subseteq DOMAIN sessions
    BY DEF Fresh
  <2> QED BY <2>1, RestrictSessions DEF ReapIdle
<1>2. server' \in Request
  BY DEF Request, OracleInv, TypeOK
<1>3. ReplyIsFresh'
  <2>1. server'.at = "reply" =>
          server' = server /\ server.sid \in DOMAIN sessions
            /\ sessions[server.sid].idle <= SESSION_IDLE_TTL
    BY DEF OracleInv, ReplyIsFresh
  <2>2. server'.at = "reply" => server.sid \in Fresh
    BY <2>1 DEF Fresh
  <2> QED BY <1>1, <2>1, <2>2 DEF ReplyIsFresh
<1>4. RunIsNext'
  <2>1. server'.at = "run" => server' = server
    OBVIOUS
  <2> QED BY <2>1, <1>1 DEF OracleInv, RunIsNext
<1> QED BY <1>1, <1>2, <1>3, <1>4 DEF OracleInv, TypeOK

LEMMA TickInv == ASSUME OracleInv, Tick PROVE OracleInv'
<1> DEFINE aged(s) == [s EXCEPT !.idle = Min({s.idle + 1, SESSION_IDLE_TTL + 1})]
<1>1. DOMAIN sessions' = DOMAIN sessions
      /\ \A id \in DOMAIN sessions : sessions'[id] = aged(sessions[id])
  BY DEF Tick
<1>2. ASSUME NEW s \in Session
      PROVE  /\ aged(s) \in Session
             /\ aged(s).events = s.events /\ aged(s).cur_frame = s.cur_frame
  <2>1. SESSION_IDLE_TTL \in Nat /\ s.idle \in 0 .. SESSION_IDLE_TTL + 1
    BY OracleAssumption DEF Session
  <2>2. Min({s.idle + 1, SESSION_IDLE_TTL + 1})
          = IF s.idle + 1 <= SESSION_IDLE_TTL + 1 THEN s.idle + 1 ELSE SESSION_IDLE_TTL + 1
    BY <2>1, MinOfTwo
  <2>3. Min({s.idle + 1, SESSION_IDLE_TTL + 1}) \in 0 .. SESSION_IDLE_TTL + 1
    BY <2>1, <2>2
  <2> QED BY <2>3 DEF Session
<1> HIDE DEF aged
<1>3. \A id \in DOMAIN sessions : sessions[id] \in Session
  BY DEF OracleInv, TypeOK
<1>4. sessions' \in [DOMAIN sessions' -> Session] /\ DOMAIN sessions' \subseteq Sid
  <2>1. \A id \in DOMAIN sessions' : sessions'[id] \in Session
    BY <1>1, <1>2, <1>3
  <2>2. sessions' = [id \in DOMAIN sessions' |-> sessions'[id]]
    BY DEF Tick
  <2> QED BY <1>1, <2>1, <2>2 DEF OracleInv, TypeOK
<1>5. ReplayInOrder'
  <2> SUFFICES ASSUME NEW id \in DOMAIN sessions PROVE EventsInOrder(sessions'[id])
    BY <1>1 DEF ReplayInOrder
  <2>1. EventsInOrder(sessions[id])
    BY DEF OracleInv, ReplayInOrder
  <2>2. /\ sessions'[id].events = sessions[id].events
        /\ sessions'[id].cur_frame = sessions[id].cur_frame
    BY <1>1, <1>2, <1>3
  <2> QED BY <2>1, <2>2 DEF EventsInOrder
<1>6. CASE server.at = "idle"
  <2>1. server' = server
    BY <1>6 DEF Tick
  <2> QED BY <1>4, <1>5, <1>6, <2>1 DEF OracleInv, TypeOK, ReplyIsFresh, RunIsNext
<1>7. CASE server.at = "run" /\ server.elapsed < MAX_WALL_SECONDS
  <2>1. server' = [server EXCEPT !.elapsed = @ + 1]
    BY <1>7 DEF Tick
  <2>2. server \in [at : {"run"}, sid : Sid, new_cur : Nat, events : Events,
                    elapsed : 0 .. MAX_WALL_SECONDS]
    BY <1>7 DEF OracleInv, TypeOK, Request
  <2>3. server' \in [at : {"run"}, sid : Sid, new_cur : Nat, events : Events,
                     elapsed : 0 .. MAX_WALL_SECONDS]
    BY <2>1, <2>2, <1>7, OracleAssumption
  <2>4. /\ server'.at = "run" /\ server'.sid = server.sid
        /\ server'.events = server.events /\ server'.new_cur = server.new_cur
    BY <2>1, <2>2
  <2>5. RunIsNext'
    <3> SUFFICES ASSUME server.sid \in DOMAIN sessions
                 PROVE  /\ server.events = sessions'[server.sid].events
                        /\ \E count \in Count :
                              server.new_cur = sessions'[server.sid].cur_frame + count
      BY <2>4, <1>1 DEF RunIsNext
    <3>1. /\ server.events = sessions[server.sid].events
          /\ \E count \in Count :
                server.new_cur = sessions[server.sid].cur_frame + count
      BY <1>7 DEF OracleInv, RunIsNext
    <3> QED BY <3>1, <1>1, <1>2, <1>3
  <2>6. server' \in Request
    BY <2>3 DEF Request
  <2> QED BY <1>4, <1>5, <2>4, <2>5, <2>6 DEF OracleInv, TypeOK, ReplyIsFresh
<1> QED BY <1>6, <1>7 DEF Tick

LEMMA StartInv == ASSUME OracleInv, NEW sid \in Sid, Start(sid) PROVE OracleInv'
<1>1. NewSession \in Session /\ EventsInOrder(NewSession)
  BY OracleAssumption DEF NewSession, Session, Events, Play, EventsInOrder
<1>2. /\ DOMAIN sessions' = DOMAIN sessions \cup {sid}
      /\ \A id \in DOMAIN sessions' :
            sessions'[id] = IF id = sid THEN NewSession ELSE sessions[id]
  BY DEF Start
<1>3. \A id \in DOMAIN sessions' : sessions'[id] \in Session /\ EventsInOrder(sessions'[id])
  BY <1>1, <1>2 DEF OracleInv, TypeOK, ReplayInOrder
<1>4. sessions' \in [DOMAIN sessions' -> Session] /\ DOMAIN sessions' \subseteq Sid
  <2>1. sessions' = [id \in DOMAIN sessions' |-> sessions'[id]]
    BY DEF Start
  <2> QED BY <2>1, <1>2, <1>3 DEF OracleInv, TypeOK
<1>5. server' \in Request /\ server'.at = "idle"
  BY DEF Start, Idle, Request
<1> QED BY <1>3, <1>4, <1>5 DEF OracleInv, TypeOK, ReplayInOrder, ReplyIsFresh, RunIsNext

\* A request that reads a session or sets it to one in order and then answers,
\* or waits for its reply with the session just used.
LEMMA UseInv ==
    ASSUME OracleInv, NEW sid \in DOMAIN sessions,
           NEW t \in Session, EventsInOrder(t),
           sessions' = [sessions EXCEPT ![sid] = t],
           server' \in Request,
           server'.at \in {"idle", "send"} \/ (server' = Replying(sid) /\ t.idle = 0)
    PROVE  OracleInv'
<1>1. /\ DOMAIN sessions' = DOMAIN sessions
      /\ DOMAIN sessions' \subseteq Sid /\ sessions' \in [DOMAIN sessions' -> Session]
      /\ ReplayInOrder' /\ sessions'[sid] = t
  BY ReplaceSession
<1>2. ReplyIsFresh'
  BY <1>1, OracleAssumption DEF ReplyIsFresh, Replying
<1>3. RunIsNext'
  BY DEF RunIsNext, Replying
<1> QED BY <1>1, <1>2, <1>3 DEF OracleInv, TypeOK

\* A session that is read is in use again; its audio may be drained.
LEMMA ReadInv ==
    ASSUME OracleInv, NEW sid \in Sid, Info(sid) \/ Framebuffer(sid) \/ Audio(sid)
    PROVE  OracleInv'
<1> DEFINE s == sessions[sid]
           read == [s EXCEPT !.idle = 0]
           drained == [s EXCEPT !.idle = 0, !.last_audio = <<>>]
<1>1. sid \in DOMAIN sessions /\ s \in Session /\ EventsInOrder(s)
  BY DEF Info, Framebuffer, Audio, OracleInv, TypeOK, ReplayInOrder
<1>2. read \in Session /\ drained \in Session
  <2>1. 0 \in 0 .. SESSION_IDLE_TTL + 1 /\ <<>> \in Play
    BY OracleAssumption DEF Play
  <2> QED BY <1>1, <2>1 DEF Session
<1>3. EventsInOrder(read) /\ EventsInOrder(drained)
  BY <1>1 DEF EventsInOrder, Session
<1>4. CASE Info(sid)
  <2>1. sessions' = [sessions EXCEPT ![sid] = read] /\ server' = Idle
    BY <1>4 DEF Info
  <2>2. server' \in Request /\ server'.at = "idle"
    BY <2>1 DEF Idle, Request
  <2> HIDE DEF read
  <2> QED BY <1>1, <1>2, <1>3, <2>1, <2>2, UseInv
<1>5. CASE Framebuffer(sid)
  <2>1. sessions' = [sessions EXCEPT ![sid] = read] /\ server' = Sending(s.last_fb)
    BY <1>5 DEF Framebuffer
  <2>2. server' \in Request /\ server'.at = "send"
    BY <1>1, <2>1 DEF Sending, Request, Session
  <2> HIDE DEF read
  <2> QED BY <1>1, <1>2, <1>3, <2>1, <2>2, UseInv
<1>6. CASE Audio(sid)
  <2>1. sessions' = [sessions EXCEPT ![sid] = drained] /\ server' = Sending(s.last_audio)
    BY <1>6 DEF Audio
  <2>2. server' \in Request /\ server'.at = "send"
    BY <1>1, <2>1 DEF Sending, Request, Session
  <2> HIDE DEF drained
  <2> QED BY <1>1, <1>2, <1>3, <2>1, <2>2, UseInv
<1> QED BY <1>4, <1>5, <1>6

LEMMA SetKeysInv ==
    ASSUME OracleInv, NEW sid \in Sid, NEW keys \in Key, SetKeys(sid, keys)
    PROVE  OracleInv'
<1> DEFINE s == sessions[sid]
           set == [s EXCEPT !.events = WithKeys(s, keys)]
           t == [s EXCEPT !.idle = 0, !.events = WithKeys(s, keys)]
<1>1. sid \in DOMAIN sessions /\ s \in Session /\ EventsInOrder(s)
  BY DEF SetKeys, OracleInv, TypeOK, ReplayInOrder
<1>2. WithKeys(s, keys) \in Events /\ EventsInOrder(set)
  BY <1>1, WithKeysInOrder
<1>3. t \in Session /\ t.idle = 0
  <2>1. 0 \in 0 .. SESSION_IDLE_TTL + 1
    BY OracleAssumption
  <2> QED BY <1>1, <1>2, <2>1 DEF Session
<1>4. t.events = set.events /\ t.cur_frame = set.cur_frame
  BY <1>1 DEF Session
<1>5. EventsInOrder(t)
  BY <1>2, <1>4 DEF EventsInOrder
<1>6. sessions' = [sessions EXCEPT ![sid] = t] /\ server' = Replying(sid)
  BY DEF SetKeys
<1>7. server' \in Request
  BY <1>6 DEF Replying, Request
<1> HIDE DEF t
<1> QED BY <1>1, <1>3, <1>5, <1>6, <1>7, UseInv

\* What a run that ends leaves in its session.
Finished(s, audio) ==
    LET run == Replay(server.events, server.new_cur)
    IN  [s EXCEPT !.cur_frame = server.new_cur, !.idle = 0,
                  !.last_fb = run, !.last_audio = audio]

\* The audio of a run that ends: all of it or nothing.
AudioOfRun == {Replay(server.events, server.new_cur), <<>>}

\* The request of a run is one for the frames after those its session has run.
LEMMA RunRequest ==
    ASSUME OracleInv, server.at = "run", server.sid \in DOMAIN sessions,
           NEW audio \in AudioOfRun
    PROVE  LET s == sessions[server.sid]
               run == Replay(server.events, server.new_cur)
           IN  /\ s \in Session /\ EventsInOrder(s)
               /\ server.events = s.events
               /\ \E count \in Count : count \in Nat /\ server.new_cur = s.cur_frame + count
               /\ Finished(s, audio) \in Session /\ EventsInOrder(Finished(s, audio))
               /\ Finished(s, audio).idle = 0 /\ Finished(s, audio).events = s.events
               /\ Finished(s, audio).cur_frame = server.new_cur
               /\ Finished(s, audio).last_fb = run /\ Finished(s, audio).last_audio = audio
<1> DEFINE s == sessions[server.sid]
           run == Replay(server.events, server.new_cur)
           t == Finished(s, audio)
<1>1. s \in Session /\ EventsInOrder(s)
  BY DEF OracleInv, TypeOK, ReplayInOrder
<1>2. server.events = s.events /\ server.new_cur \in Nat /\ server.events \in Events
  BY DEF OracleInv, TypeOK, Request, RunIsNext
<1>3. PICK count \in Count : server.new_cur = s.cur_frame + count
  BY DEF OracleInv, RunIsNext
<1>4. count \in Nat
  BY OracleAssumption
<1>5. run \in Play /\ audio \in Play
  <2>1. run \in Play
    BY <1>2, ReplayTypeOK
  <2>2. <<>> \in Play
    BY DEF Play
  <2>3. audio = run \/ audio = <<>>
    BY DEF AudioOfRun
  <2> HIDE DEF run
  <2> QED BY <2>1, <2>2, <2>3
<1> HIDE DEF run
<1>6. t = [s EXCEPT !.cur_frame = server.new_cur, !.idle = 0, !.last_fb = run,
                    !.last_audio = audio]
  BY DEF Finished, run
<1>7. /\ t.idle = 0 /\ t.events = s.events /\ t.cur_frame = server.new_cur
      /\ t.last_fb = run /\ t.last_audio = audio
  BY <1>1, <1>6 DEF Session
<1>8. t \in Session
  <2>1. 0 \in 0 .. SESSION_IDLE_TTL + 1
    BY OracleAssumption
  <2> QED BY <1>1, <1>2, <1>5, <1>6, <2>1 DEF Session
<1>9. EventsInOrder(t)
  <2> SUFFICES ASSUME NEW i \in DOMAIN s.events PROVE s.events[i][1] <= server.new_cur
    BY <1>1, <1>7 DEF EventsInOrder
  <2>1. s.events[i][1] \in Nat /\ s.events[i][1] <= s.cur_frame /\ s.cur_frame \in Nat
    BY <1>1 DEF Session, Events, EventsInOrder
  <2> QED BY <2>1, <1>3, <1>4
<1> QED BY <1>1, <1>2, <1>3, <1>4, <1>7, <1>8, <1>9 DEF run

LEMMA FinishInv == ASSUME OracleInv, Finish PROVE OracleInv'
<1> DEFINE sid == server.sid
<1>1. server.at = "run" /\ sid \in Sid
  BY DEF Finish, OracleInv, TypeOK, Request
<1>2. CASE sid \in DOMAIN sessions
  <2>1. PICK audio \in AudioOfRun :
           /\ sessions' = [sessions EXCEPT ![sid] = Finished(sessions[sid], audio)]
           /\ server' = Replying(sid)
    BY <1>2 DEF Finish, Finished, AudioOfRun
  <2>2. /\ Finished(sessions[sid], audio) \in Session
        /\ EventsInOrder(Finished(sessions[sid], audio))
        /\ Finished(sessions[sid], audio).idle = 0
    BY <1>1, <1>2, RunRequest
  <2>3. server' \in Request
    BY <1>1, <2>1 DEF Replying, Request
  <2> QED BY <1>2, <2>1, <2>2, <2>3, UseInv
<1>3. CASE sid \notin DOMAIN sessions
  <2>1. server' = Idle /\ UNCHANGED sessions
    BY <1>3 DEF Finish
  <2>2. server' \in Request /\ server'.at = "idle"
    BY <2>1 DEF Idle, Request
  <2> QED BY <2>1, <2>2 DEF OracleInv, TypeOK, ReplayInOrder, ReplyIsFresh, RunIsNext
<1> QED BY <1>2, <1>3

\* Removing sessions between two requests.
LEMMA EndInv == ASSUME OracleInv, NEW sid \in Sid, End(sid) PROVE OracleInv'
<1>1. /\ DOMAIN sessions' \subseteq Sid /\ sessions' \in [DOMAIN sessions' -> Session]
      /\ ReplayInOrder'
  BY RestrictSessions DEF End
<1>2. server' = server /\ server.at = "idle"
  BY DEF End
<1> QED BY <1>1, <1>2 DEF OracleInv, TypeOK, ReplyIsFresh, RunIsNext

\* The steps of the thread that touch no session.
LEMMA ServerInv ==
    ASSUME OracleInv,
           \/ Refuse \/ LookUp \/ RunFails \/ Reply \/ Send
           \/ \E sid \in Sid, count \in Count : RunFrame(sid, count)
    PROVE  OracleInv'
<1>1. UNCHANGED sessions
  BY DEF Refuse, LookUp, RunFails, Reply, Send, RunFrame
<1>2. CASE server' = Idle
  <2>1. server' \in Request /\ server'.at = "idle"
    BY <1>2 DEF Idle, Request
  <2> QED BY <1>1, <2>1 DEF OracleInv, TypeOK, ReplayInOrder, ReplyIsFresh, RunIsNext
<1>3. CASE \E sid \in Sid, count \in Count : RunFrame(sid, count)
  <2>1. server' \in Request /\ server'.at = "look_up"
    BY <1>3 DEF RunFrame, Request
  <2> QED BY <1>1, <2>1 DEF OracleInv, TypeOK, ReplayInOrder, ReplyIsFresh, RunIsNext
<1>4. CASE LookUp /\ server.sid \in DOMAIN sessions
  <2> DEFINE s == sessions[server.sid]
  <2>1. server.sid \in Sid /\ server.count \in Count /\ s \in Session
    BY <1>4 DEF LookUp, OracleInv, TypeOK, Request
  <2>2. server' = Run(server.sid, s.cur_frame + server.count, s.events, 0)
    BY <1>4 DEF LookUp
  <2>3. s.cur_frame + server.count \in Nat /\ s.events \in Events /\ 0 \in 0 .. MAX_WALL_SECONDS
    <3>1. server.count \in Nat /\ s.cur_frame \in Nat /\ MAX_WALL_SECONDS \in Nat
      BY <2>1, OracleAssumption DEF Session
    <3> QED BY <2>1, <3>1 DEF Session
  <2>4. server' \in Request
    BY <2>1, <2>2, <2>3 DEF Run, Request
  <2>5. ReplyIsFresh' /\ RunIsNext'
    BY <1>1, <2>1, <2>2 DEF Run, ReplyIsFresh, RunIsNext
  <2> QED BY <1>1, <2>4, <2>5 DEF OracleInv, TypeOK, ReplayInOrder
<1> QED BY <1>2, <1>3, <1>4 DEF Refuse, LookUp, RunFails, Reply, Send

\* Every step keeps the invariant.
LEMMA OracleStepInv == ASSUME OracleInv, [Next]_vars PROVE OracleInv'
<1>1. CASE Reaper
  BY <1>1, ReaperInv DEF Reaper
<1>2. CASE ReapFirst
  BY <1>2, ReaperInv DEF ReapFirst
<1>3. CASE Tick
  BY <1>3, TickInv
<1>4. CASE Handler
  BY <1>4, ServerInv, FinishInv DEF Handler
<1>5. ASSUME NEW sid \in Sid, Start(sid) PROVE OracleInv'
  BY <1>5, StartInv
<1>6. ASSUME NEW sid \in Sid, Info(sid) \/ Framebuffer(sid) \/ Audio(sid) PROVE OracleInv'
  BY <1>6, ReadInv
<1>7. ASSUME NEW sid \in Sid, End(sid) PROVE OracleInv'
  BY <1>7, EndInv
<1>8. ASSUME NEW sid \in Sid, NEW count \in Count, RunFrame(sid, count) PROVE OracleInv'
  BY <1>8, ServerInv
<1>9. ASSUME NEW sid \in Sid, NEW keys \in Key, SetKeys(sid, keys) PROVE OracleInv'
  BY <1>9, SetKeysInv
<1>10. CASE UNCHANGED vars
  BY <1>10 DEF vars, OracleInv, TypeOK, ReplayInOrder, ReplyIsFresh, RunIsNext
<1> QED BY <1>1, <1>2, <1>3, <1>4, <1>5, <1>6, <1>7, <1>8, <1>9, <1>10 DEF Next

\* The inductive invariant: types, event lists in order and in the past, replies
\* that find their session, and a run under way that has its events.
THEOREM OracleInvariant == Spec => []OracleInv
BY OracleInitInv, OracleStepInv, PTL DEF Spec

\* The sessions and the request under way have their types, and a run is never
\* longer than its time limit (oracle-server.py, the registry of sessions).
THEOREM OracleTypeOK == Spec => []TypeOK
BY OracleInvariant, PTL DEF OracleInv

\* A replay has one line a frame at most, in order, and none for a frame to
\* come, however many keys are set and whatever runs fail (oracle-server.py,
\* set-keys).
THEOREM OracleReplayInOrder == Spec => []ReplayInOrder
BY OracleInvariant, PTL DEF OracleInv

\* The replies of set-keys and run-frame find their session, whatever the
\* reaper does after the handler has let go of the lock (oracle-server.py).
THEOREM OracleReplyFindsSession == Spec => []ReplyFindsSession
<1>1. OracleInv => ReplyFindsSession
  BY DEF OracleInv, ReplyIsFresh, ReplyFindsSession
<1> QED BY <1>1, OracleInvariant, PTL

-----------------------------------------------------------------------------
(* Sessions implement emulators that go on *)

LEMMA EmuOfSession ==
    DOMAIN Emu = DOMAIN sessions /\ \A id \in DOMAIN sessions : Emu[id] = EmulatorOf(sessions[id])
BY DEF Emu

\* Only the time a session was last used is not the emulator's.
LEMMA SameEmulators ==
    ASSUME DOMAIN sessions' = DOMAIN sessions,
           \A id \in DOMAIN sessions :
              /\ sessions'[id].events = sessions[id].events
              /\ sessions'[id].cur_frame = sessions[id].cur_frame
              /\ sessions'[id].last_fb = sessions[id].last_fb
              /\ sessions'[id].last_audio = sessions[id].last_audio
    PROVE  Emu' = Emu
<1>1. \A id \in DOMAIN sessions : EmulatorOf(sessions'[id]) = EmulatorOf(sessions[id])
  BY DEF EmulatorOf
<1> QED BY <1>1 DEF Emu

LEMMA OneEmulator ==
    ASSUME OracleInv, NEW sid \in DOMAIN sessions, NEW t,
           sessions' = [sessions EXCEPT ![sid] = t]
    PROVE  Emu' = [Emu EXCEPT ![sid] = EmulatorOf(t)]
<1>1. /\ DOMAIN sessions' = DOMAIN sessions
      /\ \A id \in DOMAIN sessions : sessions'[id] = IF id = sid THEN t ELSE sessions[id]
  BY DEF OracleInv, TypeOK
<1>2. \A id \in DOMAIN sessions :
        EmulatorOf(sessions'[id]) = IF id = sid THEN EmulatorOf(t) ELSE EmulatorOf(sessions[id])
  BY <1>1
<1> QED BY <1>1, <1>2 DEF Emu

\* Removing sessions closes their emulators.
LEMMA ClosedEmulators ==
    ASSUME NEW sids, sids \subseteq DOMAIN sessions,
           sessions' = Restrict(sessions, DOMAIN sessions \ sids), Served' = Served
    PROVE  Emulators!Next
<1>1. /\ DOMAIN sessions' = DOMAIN sessions \ sids
      /\ \A id \in DOMAIN sessions' : sessions'[id] = sessions[id]
  BY DEF Restrict
<1>2. Emu' = [id \in DOMAIN Emu \ sids |-> Emu[id]]
  BY <1>1 DEF Emu
<1>3. Emulators!Close(sids)
  BY <1>2 DEF Emulators!Close, Emulators!Restrict
<1>4. sids \in SUBSET DOMAIN Emu
  BY EmuOfSession
<1> QED BY <1>3, <1>4 DEF Emulators!Next

LEMMA EmulatorsInit == ASSUME Init PROVE Emulators!Init
<1>1. Emu = <<>>
  BY DEF Init, Emu
<1> QED BY <1>1 DEF Init, Idle, Served, Emulators!Init

LEMMA ReaperCloses ==
    ASSUME OracleInv, Reaper \/ ReapFirst PROVE Emulators!Next
<1>1. Fresh = DOMAIN sessions \ (DOMAIN sessions \ Fresh)
  BY DEF Fresh
<1>2. Served' = Served
  BY DEF Reaper, ReapFirst, Served
<1> QED BY <1>1, <1>2, ClosedEmulators DEF Reaper, ReapFirst, ReapIdle

LEMMA TimePasses ==
    ASSUME OracleInv, Tick PROVE UNCHANGED <<Emu, Served>>
<1>1. DOMAIN sessions' = DOMAIN sessions
  BY DEF Tick
<1>2. ASSUME NEW id \in DOMAIN sessions
      PROVE  /\ sessions'[id].events = sessions[id].events
             /\ sessions'[id].cur_frame = sessions[id].cur_frame
             /\ sessions'[id].last_fb = sessions[id].last_fb
             /\ sessions'[id].last_audio = sessions[id].last_audio
  <2>1. sessions[id] \in Session
    BY DEF OracleInv, TypeOK
  <2> QED BY <2>1 DEF Tick, Session
<1>3. Served' = Served
  <2>1. CASE server.at = "idle"
    BY <2>1 DEF Tick, Served
  <2>2. CASE server.at = "run"
    <3>1. server'.at = "run"
      BY <2>2 DEF Tick, OracleInv, TypeOK, Request
    <3> QED BY <2>2, <3>1 DEF Served
  <2> QED BY <2>1, <2>2 DEF Tick
<1> QED BY <1>1, <1>2, <1>3, SameEmulators

LEMMA StartOpens ==
    ASSUME OracleInv, NEW sid \in Sid, Start(sid) PROVE Emulators!Next
<1>1. EmulatorOf(NewSession) = Emulators!NewEmulator
  <2>1. Replay(<<>>, 0) = <<>>
    BY DEF Replay
  <2> QED BY <2>1 DEF EmulatorOf, NewSession, Emulators!NewEmulator
<1>2. /\ DOMAIN sessions' = DOMAIN sessions \cup {sid} /\ sid \notin DOMAIN sessions
      /\ \A id \in DOMAIN sessions' :
            sessions'[id] = IF id = sid THEN NewSession ELSE sessions[id]
  BY DEF Start
<1>3. Emu' = [id \in DOMAIN Emu \cup {sid} |->
                IF id = sid THEN Emulators!NewEmulator ELSE Emu[id]]
  BY <1>1, <1>2 DEF Emu
<1>4. Served' = Served
  BY DEF Start, Idle, Served
<1>5. Emulators!Open(sid)
  BY <1>2, <1>3, <1>4, EmuOfSession DEF Emulators!Open
<1> QED BY <1>5 DEF Emulators!Next

LEMMA SetKeysSets ==
    ASSUME OracleInv, NEW sid \in Sid, NEW keys \in Key, SetKeys(sid, keys)
    PROVE  Emulators!Next
<1> DEFINE s == sessions[sid]
           set == [s EXCEPT !.events = WithKeys(s, keys)]
           t == [s EXCEPT !.idle = 0, !.events = WithKeys(s, keys)]
<1>1. sid \in DOMAIN sessions /\ s \in Session /\ EventsInOrder(s)
  BY DEF SetKeys, OracleInv, TypeOK, ReplayInOrder
<1>2. /\ EmulatorOf(set).keys = keys
      /\ \A n \in Nat : n < s.cur_frame => KeysAt(set.events, n) = KeysAt(s.events, n)
  BY <1>1, WithKeysInOrder
<1>3. /\ t.events = set.events /\ t.cur_frame = s.cur_frame
      /\ t.last_fb = s.last_fb /\ t.last_audio = s.last_audio
  BY <1>1 DEF Session
<1>4. EmulatorOf(t).keys = keys
  BY <1>2, <1>3 DEF EmulatorOf
<1>5. Replay(t.events, t.cur_frame) = Replay(s.events, s.cur_frame)
  <2>1. s.cur_frame \in Nat
    BY <1>1 DEF Session
  <2>2. \A i \in 1 .. s.cur_frame : KeysAt(set.events, i - 1) = KeysAt(s.events, i - 1)
    BY <2>1, <1>2
  <2> HIDE DEF t, set, s
  <2> QED BY <2>2, <1>3 DEF Replay
<1>6. sessions' = [sessions EXCEPT ![sid] = t]
  BY DEF SetKeys
<1> HIDE DEF t
<1>7. Emu' = [Emu EXCEPT ![sid] = EmulatorOf(t)]
  BY <1>1, <1>6, OneEmulator
<1>8. EmulatorOf(t) = [EmulatorOf(s) EXCEPT !.keys = keys]
  BY <1>3, <1>4, <1>5 DEF EmulatorOf
<1>9. sid \in DOMAIN Emu /\ Emu[sid] = EmulatorOf(s)
  BY <1>1, EmuOfSession
<1>10. Emu' = [Emu EXCEPT ![sid].keys = keys]
  BY <1>7, <1>8, <1>9
<1>11. Served' = Served
  BY DEF SetKeys, Replying, Served
<1>12. Emulators!SetKeys(sid, keys)
  BY <1>10, <1>11 DEF Emulators!SetKeys
<1> QED BY <1>9, <1>12 DEF Emulators!Next

\* A run that ends is what the emulator does that runs on from where it is.
LEMMA FinishRuns ==
    ASSUME OracleInv, server.at = "run", server.sid \in DOMAIN sessions,
           NEW audio \in AudioOfRun,
           sessions' = [sessions EXCEPT ![server.sid] = Finished(sessions[server.sid], audio)],
           server' = Replying(server.sid)
    PROVE  Emulators!Next
<1> DEFINE sid == server.sid
           s == sessions[sid]
           t == Finished(s, audio)
           run == Replay(server.events, server.new_cur)
<1>1. server.at = "run"
  OBVIOUS
<1>2. /\ s \in Session /\ EventsInOrder(s) /\ server.events = s.events
      /\ \E count \in Count : count \in Nat /\ server.new_cur = s.cur_frame + count
      /\ t.events = s.events /\ t.cur_frame = server.new_cur
      /\ t.last_fb = run /\ t.last_audio = audio
  BY <1>1, RunRequest
<1>3. PICK count \in Count : count \in Nat /\ server.new_cur = s.cur_frame + count
  BY <1>2
<1>4. sessions' = [sessions EXCEPT ![sid] = t] /\ server' = Replying(sid)
  OBVIOUS
<1>0. audio \in {run, <<>>}
  BY DEF AudioOfRun
<1> HIDE DEF t, s
<1>5. run = Replay(s.events, s.cur_frame) \o [i \in 1 .. count |-> EmulatorOf(s).keys]
  BY <1>2, <1>3, ReplayGoesOn
<1> HIDE DEF run
<1>6. EmulatorOf(t) = [EmulatorOf(s) EXCEPT !.ran = run, !.screen = run, !.sound = audio]
  <2>1. Replay(t.events, t.cur_frame) = run
    BY <1>2 DEF run
  <2>2. t.events = s.events /\ t.last_fb = run /\ t.last_audio = audio
    BY <1>2 DEF run
  <2>3. EmulatorOf(t).keys = EmulatorOf(s).keys
    BY <2>2 DEF EmulatorOf
  <2>4. EmulatorOf(t) = [keys |-> EmulatorOf(t).keys, ran |-> run, screen |-> run, sound |-> audio]
    BY <2>1, <2>2 DEF EmulatorOf
  <2>5. EmulatorOf(s) = [keys |-> EmulatorOf(s).keys, ran |-> EmulatorOf(s).ran,
                         screen |-> EmulatorOf(s).screen, sound |-> EmulatorOf(s).sound]
    BY DEF EmulatorOf
  <2> DEFINE e1 == [EmulatorOf(s) EXCEPT !.ran = run]
             e2 == [e1 EXCEPT !.screen = run]
             e3 == [e2 EXCEPT !.sound = audio]
  <2>6. e1 = [keys |-> EmulatorOf(s).keys, ran |-> run,
              screen |-> EmulatorOf(s).screen, sound |-> EmulatorOf(s).sound]
    BY <2>5
  <2> HIDE DEF e1
  <2>7. e2 = [keys |-> EmulatorOf(s).keys, ran |-> run,
              screen |-> run, sound |-> EmulatorOf(s).sound]
    BY <2>6
  <2> HIDE DEF e2
  <2>8. e3 = EmulatorOf(t)
    BY <2>7, <2>3, <2>4
  <2> QED BY <2>8 DEF e1, e2
<1>7. sid \in DOMAIN Emu /\ Emu[sid] = EmulatorOf(s)
  BY EmuOfSession DEF s
<1>8. Emu' = [Emu EXCEPT ![sid] = EmulatorOf(t)]
  BY <1>4, OneEmulator
<1>9. run = Emu[sid].ran \o [i \in 1 .. count |-> Emu[sid].keys]
  <2>1. EmulatorOf(s).ran = Replay(s.events, s.cur_frame)
    BY DEF EmulatorOf
  <2> QED BY <2>1, <1>5, <1>7
<1>10. Emu' = [Emu EXCEPT ![sid].ran = run, ![sid].screen = run, ![sid].sound = audio]
  BY <1>6, <1>7, <1>8
<1>11. Served' = Served
  BY <1>1, <1>4 DEF Replying, Served
<1>12. Emulators!RunFrames(sid, count)
  BY <1>0, <1>9, <1>10, <1>11 DEF Emulators!RunFrames
<1> QED BY <1>7, <1>12 DEF Emulators!Next

LEMMA FinishSteps ==
    ASSUME OracleInv, Finish, server.sid \in DOMAIN sessions PROVE Emulators!Next
<1>1. PICK audio \in AudioOfRun :
         /\ sessions' = [sessions EXCEPT ![server.sid] = Finished(sessions[server.sid], audio)]
         /\ server' = Replying(server.sid)
  BY DEF Finish, Finished, AudioOfRun
<1>2. server.at = "run"
  BY DEF Finish
<1> QED BY <1>1, <1>2, FinishRuns

\* Reading a session shows what its emulator shows and plays.
LEMMA ReadReads ==
    ASSUME OracleInv, NEW sid \in Sid, Info(sid) \/ Framebuffer(sid) \/ Audio(sid)
    PROVE  Emulators!Next \/ UNCHANGED <<Emu, Served>>
<1> DEFINE s == sessions[sid]
           read == [s EXCEPT !.idle = 0]
           drained == [s EXCEPT !.idle = 0, !.last_audio = <<>>]
<1>1. sid \in DOMAIN sessions /\ s \in Session
  BY DEF Info, Framebuffer, Audio, OracleInv, TypeOK
<1>2. sid \in DOMAIN Emu /\ Emu[sid] = EmulatorOf(s)
  BY <1>1, EmuOfSession
<1>3. EmulatorOf(read) = EmulatorOf(s)
  BY <1>1 DEF EmulatorOf, Session
<1>4. EmulatorOf(drained) = [EmulatorOf(s) EXCEPT !.sound = <<>>]
  BY <1>1 DEF EmulatorOf, Session
<1>5. ASSUME sessions' = [sessions EXCEPT ![sid] = read] PROVE Emu' = Emu
  <2> HIDE DEF read
  <2>1. Emu' = [Emu EXCEPT ![sid] = Emu[sid]]
    BY <1>1, <1>2, <1>3, <1>5, OneEmulator
  <2> QED BY <2>1 DEF Emu
<1>6. CASE Info(sid)
  <2>1. Emu' = Emu
    BY <1>5, <1>6 DEF Info
  <2> QED BY <1>6, <2>1 DEF Info, Idle, Served
<1>7. CASE Framebuffer(sid)
  <2>1. Emu' = Emu
    BY <1>5, <1>7 DEF Framebuffer
  <2>2. Served' = EmulatorOf(s).screen
    BY <1>7 DEF Framebuffer, Sending, Served, EmulatorOf
  <2>3. Emulators!ReadScreen(sid)
    BY <2>1, <2>2, <1>2 DEF Emulators!ReadScreen
  <2> QED BY <2>3, <1>2 DEF Emulators!Next
<1>8. CASE Audio(sid)
  <2>1. sessions' = [sessions EXCEPT ![sid] = drained]
    BY <1>8 DEF Audio
  <2>2. Served' = EmulatorOf(s).sound
    BY <1>8 DEF Audio, Sending, Served, EmulatorOf
  <2> HIDE DEF drained
  <2>3. Emu' = [Emu EXCEPT ![sid] = EmulatorOf(drained)]
    BY <1>1, <2>1, OneEmulator
  <2>4. Emu' = [Emu EXCEPT ![sid].sound = <<>>]
    BY <2>3, <1>2, <1>4
  <2>5. Emulators!DrainSound(sid)
    BY <2>2, <2>4, <1>2 DEF Emulators!DrainSound
  <2> QED BY <2>5, <1>2 DEF Emulators!Next
<1> QED BY <1>6, <1>7, <1>8

\* The other steps of the thread send what was read, or are not seen.
LEMMA ServerReplies ==
    ASSUME OracleInv,
           \/ Refuse \/ LookUp \/ RunFails \/ Reply \/ Send
           \/ Finish /\ server.sid \notin DOMAIN sessions
           \/ \E sid \in Sid, count \in Count : RunFrame(sid, count)
    PROVE  Emulators!Next \/ UNCHANGED <<Emu, Served>>
<1>1. UNCHANGED sessions
  BY DEF Refuse, LookUp, RunFails, Reply, Send, RunFrame, Finish
<1>2. Emu' = Emu
  BY <1>1 DEF Emu
<1>3. CASE Send
  <2>1. Served' = <<>>
    BY <1>3 DEF Send, Idle, Served
  <2> QED BY <1>2, <2>1 DEF Emulators!Sent, Emulators!Next
<1>4. CASE ~Send
  <2>1. server.at # "send"
    BY <1>4 DEF Refuse, LookUp, RunFails, Reply, Send, RunFrame, Finish
  <2>2. server'.at # "send"
    BY <1>4 DEF Refuse, LookUp, RunFails, Reply, Send, RunFrame, Finish, Idle, Run
  <2> QED BY <1>2, <2>1, <2>2 DEF Served
<1> QED BY <1>3, <1>4

LEMMA EndCloses ==
    ASSUME OracleInv, NEW sid \in Sid, End(sid) PROVE Emulators!Next
BY ClosedEmulators DEF End, Served

LEMMA EmulatorsStep ==
    ASSUME OracleInv, [Next]_vars
    PROVE  [Emulators!Next]_<<Emu, Served>>
<1>1. CASE Reaper \/ ReapFirst
  BY <1>1, ReaperCloses
<1>2. CASE Tick
  BY <1>2, TimePasses
<1>3. CASE Handler
  BY <1>3, ServerReplies, FinishSteps DEF Handler
<1>4. ASSUME NEW sid \in Sid, Start(sid) PROVE Emulators!Next
  BY <1>4, StartOpens
<1>5. ASSUME NEW sid \in Sid, Info(sid) \/ Framebuffer(sid) \/ Audio(sid)
      PROVE  Emulators!Next \/ UNCHANGED <<Emu, Served>>
  BY <1>5, ReadReads
<1>6. ASSUME NEW sid \in Sid, End(sid) PROVE Emulators!Next
  BY <1>6, EndCloses
<1>7. ASSUME NEW sid \in Sid, NEW count \in Count, RunFrame(sid, count)
      PROVE  Emulators!Next \/ UNCHANGED <<Emu, Served>>
  BY <1>7, ServerReplies
<1>8. ASSUME NEW sid \in Sid, NEW keys \in Key, SetKeys(sid, keys) PROVE Emulators!Next
  BY <1>8, SetKeysSets
<1>9. CASE UNCHANGED vars
  BY <1>9 DEF vars, Emu, Served
<1> QED BY <1>1, <1>2, <1>3, <1>4, <1>5, <1>6, <1>7, <1>8, <1>9 DEF Next

\* The oracle's sessions, replayed from the first frame at every request, cannot
\* be told from emulators that stand still between the requests and go on
\* (oracle-server.py, _session_run_frames; the oracle's main.rs, cmd_run).
THEOREM OracleImplementsEmulators == Spec => ImplementsEmulators
<1>1. Init => Emulators!Init
  BY EmulatorsInit
<1>2. OracleInv /\ [Next]_vars => [Emulators!Next]_<<Emu, Served>>
  BY EmulatorsStep
<1> QED BY <1>1, <1>2, OracleInvariant, PTL DEF Spec, ImplementsEmulators, Emulators!Spec
=============================================================================
