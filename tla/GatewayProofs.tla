---------------------------- MODULE GatewayProofs ----------------------------
(***************************************************************************)
(* The frames of a chat's messages, for any sessions, messages, chunks and *)
(* stops of the runtime.  That a message is closed once depends on what is *)
(* still under way to the gateway, so the invariant says what a stream may *)
(* hold while its run goes on, and after it (Sound).                       *)
(***************************************************************************)
EXTENDS ChatRoute, SequenceTheorems, TLAPS

(* The chunks of a stream: what is shown, and what says that it is over.   *)
Shown == Final \cup Middle
Marks == {"end", "broken"}
Chunks == Shown \cup Marks

(* A stream whose run is over: a mark at its end, and before that, perhaps *)
(* not any more, the final chunk.                                          *)
Ended(q) == /\ q \in Seq(Chunks) /\ Len(q) > 0
            /\ \A i \in 1..Len(q) : /\ q[i] \in Marks <=> i = Len(q)
                                    /\ q[i] \in Final => i = Len(q) - 1

LEMMA ChunksApart == \A c \in Chunks : /\ c \in Middle => c \notin Final /\ c \notin Marks
                                       /\ c \in Final => c \notin Marks
  BY DEF Chunks, Shown, Marks, Final, Middle

(* What was read of an ended stream leaves an ended one.                   *)
LEMMA EndedTail ==
  ASSUME NEW q, Ended(q), Len(q) # 1
  PROVE  /\ Ended(Tail(q)) /\ Head(q) \in Shown
         /\ Head(q) \in Final => Len(Tail(q)) = 1
         /\ Tail(q)[Len(Tail(q))] = q[Len(q)]
<1>1. PICK n : n = Len(q)
  OBVIOUS
<1>2. /\ q \in Seq(Chunks) /\ n \in Nat /\ n > 1 /\ DOMAIN q = 1..n
      /\ \A i \in 1..n : q[i] \in Chunks
  BY <1>1 DEF Ended
<1>3. /\ Tail(q) \in Seq(Chunks) /\ Len(Tail(q)) = n - 1 /\ Head(q) = q[1]
      /\ \A i \in 1..(n - 1) : Tail(q)[i] = q[i + 1]
  BY <1>1, <1>2, HeadTailProperties
<1>4. \A i \in 1..n : /\ q[i] \in Marks <=> i = n
                      /\ q[i] \in Final => i = n - 1
  BY <1>1 DEF Ended
<1>5. Head(q) \in Shown /\ (Head(q) \in Final => Len(Tail(q)) = 1)
  BY <1>2, <1>3, <1>4 DEF Chunks
<1>6. \A i \in 1..(n - 1) : /\ Tail(q)[i] \in Marks <=> i = n - 1
                            /\ Tail(q)[i] \in Final => i = (n - 1) - 1
  <2> TAKE i \in 1..(n - 1)
  <2>1. i + 1 \in 1..n /\ Tail(q)[i] = q[i + 1] /\ i \in Nat
    BY <1>2, <1>3
  <2> QED  BY <1>2, <1>4, <2>1
<1>7. Ended(Tail(q))
  BY <1>2, <1>3, <1>6 DEF Ended
<1>8. Tail(q)[n - 1] = q[n]
  BY <1>2, <1>3
<1> QED  BY <1>1, <1>3, <1>5, <1>7, <1>8

LEMMA EndedMark == ASSUME NEW q, Ended(q), Len(q) = 1
                   PROVE  Head(q) \in Marks /\ q[Len(q)] = Head(q)
  BY DEF Ended

(* What a run writes last ends its stream, and so does a stop.             *)
LEMMA EndedAfter ==
  ASSUME NEW q \in Seq(Chunks), NEW n \in 0..Len(q), NEW c, Ended(c),
         \A i \in 1..n : q[i] \in Shown /\ (q[i] \in Final => i = n /\ Len(c) = 1)
  PROVE  /\ Ended(SubSeq(q, 1, n) \o c)
         /\ (SubSeq(q, 1, n) \o c)[Len(SubSeq(q, 1, n) \o c)] = c[Len(c)]
        /\ Len(SubSeq(q, 1, n) \o c) = n + Len(c)
<1>1. PICK p : p = SubSeq(q, 1, n)
  OBVIOUS
<1>2. /\ n \in Nat /\ Len(q) \in Nat /\ n <= Len(q)
      /\ \A i \in 1..Len(q) : q[i] \in Chunks
  OBVIOUS
<1>3. p \in Seq(Chunks) /\ Len(p) = n /\ \A i \in 1..n : p[i] = q[i]
  <2>1. \A i \in 1..n : q[i] \in Chunks
    BY <1>2
  <2> QED  BY <1>1, <1>2, <2>1, SubSeqProperties
<1>4. PICK k : k = Len(c)
  OBVIOUS
<1>5. /\ c \in Seq(Chunks) /\ k \in Nat /\ k > 0
      /\ \A i \in 1..k : /\ c[i] \in Marks <=> i = k
                         /\ c[i] \in Final => i = k - 1
  BY <1>4 DEF Ended
<1>6. PICK w : w = p \o c
  OBVIOUS
<1>7. /\ w \in Seq(Chunks) /\ Len(w) = n + k
      /\ \A i \in 1..(n + k) : w[i] = IF i <= n THEN p[i] ELSE c[i - n]
  <2>1. /\ p \o c \in Seq(Chunks) /\ Len(p \o c) = Len(p) + Len(c)
        /\ \A i \in 1..(Len(p) + Len(c)) :
             (p \o c)[i] = IF i <= Len(p) THEN p[i] ELSE c[i - Len(p)]
    BY <1>3, <1>5, ConcatProperties, Zenon
  <2> QED  BY <1>3, <1>4, <1>6, <2>1
<1>8. ASSUME NEW i \in 1..(n + k)
      PROVE  /\ w[i] \in Marks <=> i = n + k
             /\ w[i] \in Final => i = (n + k) - 1
  <2>1. CASE i <= n
    <3>1. i \in 1..n /\ w[i] = q[i] /\ i # n + k
      BY <1>2, <1>3, <1>5, <1>7, <2>1
    <3>2. w[i] \in Shown /\ (w[i] \in Final => i = n /\ k = 1)
      BY <1>4, <3>1
    <3>3. w[i] \notin Marks
      BY <3>2 DEF Shown, Marks, Final, Middle
    <3> QED  BY <1>2, <3>1, <3>2, <3>3
  <2>2. CASE i > n
    <3>1. i - n \in 1..k /\ w[i] = c[i - n]
      BY <1>2, <1>5, <1>7, <2>2
    <3> QED  BY <1>2, <1>5, <3>1
  <2> QED  BY <1>2, <1>5, <2>1, <2>2
<1>9. Ended(w)
  BY <1>2, <1>5, <1>7, <1>8 DEF Ended
<1>10. w[n + k] = c[k]
  BY <1>2, <1>5, <1>7
<1> QED  BY <1>1, <1>4, <1>6, <1>7, <1>9, <1>10

(* Nothing shown is final but the last, or the error of a broken stream.   *)
LastOnly(f) == \A i \in 1..(Len(f) - 1) : f[i] \notin Final

ClosedWell(f, n) ==
  \A i \in 1..(Len(f) - 1) :
    f[i] \in Final => i = Len(f) - 1 /\ f[i + 1] = "agent_error" /\ n > 0

(* A message in its place p with its run r, its stream q and what was      *)
(* shown of it, f, after n stops.                                          *)
Sound(p, r, q, f, n) ==
  /\ p \in {"none", "checking", "calling"} => r = "none" /\ q = <<>> /\ f = <<>>
  /\ p = "reading" /\ r # "none" => q \in Seq(Middle) /\ f \in Seq(Middle)
  /\ p = "reading" /\ r = "none" =>
       /\ Ended(q) /\ LastOnly(f)
       /\ f \in Seq(Middle) \/ Len(q) = 1
       /\ q[Len(q)] = "broken" => n > 0
  /\ p = "done" => r = "none" /\ ClosedWell(f, n)

Places == {"none", "checking", "calling", "reading", "done"}
Runs == {"none", "running", "asking"}
Requested == {"none", "create", "created", "delete", "deleted"}

MessageTypes ==
  /\ phase \in [Messages -> Places] /\ run \in [Messages -> Runs]
  /\ stream \in [Messages -> Seq(Chunks)] /\ frames \in [Messages -> Seq(Shown)]

MessagesSound == \A m \in Messages : /\ Sound(phase[m], run[m], stream[m], frames[m], stops)
                                     /\ run[m] # "none" => up

(* A session the client knows to be over is gone, and not asked for again. *)
SessionsSound ==
  /\ sessions \subseteq Sessions
  /\ told \in [Sessions -> {"none", "active", "gone"}] /\ asked \in [Sessions -> Requested]
  /\ \A s \in Sessions :
       /\ asked[s] \in {"create", "created"} => told[s] = "none"
       /\ asked[s] \in {"delete", "deleted"} => told[s] # "none"
       /\ told[s] = "gone" \/ asked[s] = "deleted" => s \notin sessions

RouteInv == /\ MessageTypes /\ MessagesSound /\ SessionsSound
            /\ stops \in Nat /\ up \in BOOLEAN /\ (~up => stops > 0)
            /\ of \in [Messages -> Sessions]

LEMMA RouteInvInit == ASSUME Init PROVE RouteInv
<1>1. <<>> \in Seq(Chunks) /\ <<>> \in Seq(Shown)
  OBVIOUS
<1>2. MessageTypes
  BY <1>1 DEF Init, MessageTypes, Places, Runs
<1>3. MessagesSound
  BY DEF Init, MessagesSound, Sound
<1>4. SessionsSound
  BY DEF Init, SessionsSound, Requested
<1> QED  BY <1>2, <1>3, <1>4 DEF Init, RouteInv

(* The sessions' handlers leave the messages alone.                        *)
LEMMA SessionSteps ==
  ASSUME RouteInv, TokenExpires \/ \E s \in Sessions : SessionNext(s) PROVE RouteInv'
<1>1. UNCHANGED <<phase, stream, frames, run, up, stops, of>>
  BY DEF TokenExpires, SessionNext, PostSession, CreateSession, CreateAnswered,
         DeleteSession, TerminateSession, DeleteAnswered, StatusNotFound, Connect, Closes,
         client, gateway, runtime
<1>2. MessageTypes' /\ MessagesSound'
  BY <1>1 DEF RouteInv, MessageTypes, MessagesSound
<1>3. SessionsSound'
  <2>1. CASE UNCHANGED <<sessions, told, asked>>
    BY <2>1 DEF RouteInv, SessionsSound
  <2>2. ASSUME NEW s \in Sessions,
               PostSession(s) \/ CreateSession(s) \/ CreateAnswered(s) \/ DeleteSession(s)
        PROVE  SessionsSound'
    BY <2>2 DEF PostSession, CreateSession, CreateAnswered, DeleteSession, client, runtime,
                RouteInv, SessionsSound, Requested
  <2>3. ASSUME NEW s \in Sessions,
               TerminateSession(s) \/ DeleteAnswered(s) \/ StatusNotFound(s)
        PROVE  SessionsSound'
    BY <2>3 DEF TerminateSession, DeleteAnswered, StatusNotFound, client, runtime,
                RouteInv, SessionsSound, Requested
  <2> QED  BY <2>1, <2>2, <2>3 DEF TokenExpires, SessionNext, Connect, Closes, runtime
<1> QED  BY <1>1, <1>2, <1>3 DEF RouteInv

(* A handler or a run moves one message.                                   *)
Moving(m) ==
  /\ MessageTypes' /\ UNCHANGED <<sessions, told, asked, up, stops, of>>
  /\ \A k \in Messages : k # m => /\ phase'[k] = phase[k] /\ run'[k] = run[k]
                                  /\ stream'[k] = stream[k] /\ frames'[k] = frames[k]

LEMMA MovingStep ==
  ASSUME RouteInv, NEW m \in Messages, Moving(m), run'[m] # "none" => up,
         Sound(phase'[m], run'[m], stream'[m], frames'[m], stops)
  PROVE  RouteInv'
<1>1. MessagesSound'
  <2> SUFFICES ASSUME NEW k \in Messages
               PROVE  /\ Sound(phase'[k], run'[k], stream'[k], frames'[k], stops')
                      /\ run'[k] # "none" => up'
    BY DEF MessagesSound
  <2>1. stops' = stops /\ up' = up
    BY DEF Moving
  <2>2. CASE k = m
    BY <2>1, <2>2
  <2>3. CASE k # m
    <3>1. /\ phase'[k] = phase[k] /\ run'[k] = run[k]
          /\ stream'[k] = stream[k] /\ frames'[k] = frames[k]
      BY <2>3 DEF Moving
    <3> QED  BY <2>1, <3>1 DEF RouteInv, MessagesSound
  <2> QED  BY <2>2, <2>3
<1>2. SessionsSound'
  BY DEF RouteInv, SessionsSound, Moving
<1> QED  BY <1>1, <1>2 DEF RouteInv, Moving

(* What a message's socket was sent.                                       *)
LEMMA SendMsgEffect ==
  ASSUME RouteInv, NEW m \in Messages, NEW frame \in Shown, SendMsg(m, frame)
  PROVE  /\ frames' \in [Messages -> Seq(Shown)]
         /\ \A k \in Messages : k # m => frames'[k] = frames[k]
         /\ frames'[m] = frames[m] \/ frames'[m] = Append(frames[m], frame)
<1>1. frames \in [Messages -> Seq(Shown)] /\ Append(frames[m], frame) \in Seq(Shown)
  BY DEF RouteInv, MessageTypes
<1> QED  BY <1>1 DEF SendMsg

(* A frame more, behind frames none of which was final.                    *)
LEMMA OneMore ==
  ASSUME NEW f \in Seq(Shown), NEW c \in Shown
  PROVE  /\ f \in Seq(Middle) => LastOnly(f) /\ LastOnly(Append(f, c))
         /\ f \in Seq(Middle) /\ c \in Middle => Append(f, c) \in Seq(Middle)
         /\ \A n \in Nat : LastOnly(f) => ClosedWell(f, n)
         /\ \A n \in Nat : LastOnly(f) /\ n > 0 => ClosedWell(Append(f, "agent_error"), n)
<1>1. PICK l : l = Len(f)
  OBVIOUS
<1>2. PICK g : g = Append(f, c)
  OBVIOUS
<1>3. /\ l \in Nat /\ Len(g) = l + 1 /\ g[l + 1] = c
      /\ \A i \in 1..l : g[i] = f[i]
  BY <1>1, <1>2
<1>4. f \in Seq(Middle) => \A i \in 1..l : f[i] \notin Final
  <2>1. \A x \in Middle : x \notin Final
    BY DEF Middle, Final
  <2>2. f \in Seq(Middle) => \A i \in 1..l : f[i] \in Middle
    BY <1>1
  <2> QED  BY <2>1, <2>2
<1>5. f \in Seq(Middle) => LastOnly(f) /\ LastOnly(g)
  BY <1>1, <1>3, <1>4 DEF LastOnly
<1>6. f \in Seq(Middle) /\ c \in Middle => g \in Seq(Middle)
  BY <1>2
<1>7. ASSUME NEW n \in Nat, LastOnly(f) PROVE ClosedWell(f, n)
  BY <1>7 DEF LastOnly, ClosedWell
<1>8. ASSUME NEW n \in Nat, LastOnly(f), n > 0
      PROVE  ClosedWell(Append(f, "agent_error"), n)
  <2>1. PICK h : h = Append(f, "agent_error")
    OBVIOUS
  <2>2. /\ Len(h) = l + 1 /\ h[l + 1] = "agent_error"
        /\ \A i \in 1..l : h[i] = f[i]
    BY <1>1, <2>1
  <2>3. \A i \in 1..(l - 1) : f[i] \notin Final
    BY <1>1, <1>8 DEF LastOnly
  <2>4. ASSUME NEW i \in 1..l, h[i] \in Final
        PROVE  i = l /\ h[i + 1] = "agent_error"
    <3>1. i = l
      BY <1>3, <2>2, <2>3, <2>4
    <3> QED  BY <2>2, <3>1
  <2>5. ClosedWell(h, n)
    BY <1>3, <1>8, <2>2, <2>4 DEF ClosedWell
  <2> QED  BY <2>1, <2>5
<1> QED  BY <1>2, <1>5, <1>6, <1>7, <1>8

(* The socket's handlers keep what is said of the message.                 *)
LEMMA BeginSteps ==
  ASSUME RouteInv, NEW m \in Messages, Message(m) \/ CostChecked(m) PROVE RouteInv'
<1>1. phase \in [Messages -> Places] /\ phase' \in [Messages -> Places]
  BY DEF Message, CostChecked, RouteInv, MessageTypes, Places
<1>2. /\ UNCHANGED <<sessions, told, asked, up, stops, of, run, stream>>
      /\ \A k \in Messages : k # m => phase'[k] = phase[k]
  BY <1>1 DEF Message, CostChecked, client, runtime
<1>3. phase[m] \in {"none", "checking", "calling"}
  BY DEF Message, CostChecked
<1>4. run[m] = "none" /\ stream[m] = <<>> /\ frames[m] = <<>>
  BY <1>3 DEF RouteInv, MessagesSound, Sound
<1>5. CASE UNCHANGED frames /\ phase'[m] \in {"none", "checking", "calling"}
  <2>1. Moving(m)
    BY <1>1, <1>2, <1>5 DEF Moving, RouteInv, MessageTypes
  <2>2. Sound(phase'[m], run'[m], stream'[m], frames'[m], stops)
    BY <1>2, <1>4, <1>5 DEF Sound
  <2> QED  BY <1>2, <1>4, <2>1, <2>2, MovingStep
<1>6. CASE phase'[m] = "done" /\ SendMsg(m, "cap_exceeded")
  <2>0. "cap_exceeded" \in Shown
    BY DEF Shown, Final
  <2>1. /\ frames' \in [Messages -> Seq(Shown)]
        /\ \A k \in Messages : k # m => frames'[k] = frames[k]
        /\ frames'[m] = frames[m] \/ frames'[m] = Append(frames[m], "cap_exceeded")
    BY <1>6, <2>0, SendMsgEffect
  <2>2. Moving(m)
    BY <1>1, <1>2, <2>1 DEF Moving, RouteInv, MessageTypes
  <2>3. <<>> \in Seq(Middle) /\ <<>> \in Seq(Shown)
    OBVIOUS
  <2>4. LastOnly(frames'[m])
    BY <1>4, <2>0, <2>1, <2>3, OneMore
  <2>5. ClosedWell(frames'[m], stops)
    BY <2>4 DEF LastOnly, ClosedWell
  <2>6. Sound(phase'[m], run'[m], stream'[m], frames'[m], stops)
    BY <1>2, <1>4, <1>6, <2>5 DEF Sound
  <2> QED  BY <1>2, <1>4, <2>2, <2>6, MovingStep
<1> QED  BY <1>1, <1>5, <1>6 DEF Message, CostChecked

(* The two answers a call itself may get are ended streams.                *)
LEMMA ShortStreams ==
  /\ Ended(<<"not_found", "end">>) /\ <<"not_found", "end">>[2] = "end"
  /\ Len(<<"not_found", "end">>) = 2
  /\ Ended(<<"broken">>) /\ Len(<<"broken">>) = 1 /\ <<"broken">>[1] = "broken"
<1>1. <<"not_found", "end">> \in Seq(Chunks) /\ <<"broken">> \in Seq(Chunks)
  BY DEF Chunks, Shown, Marks, Final
<1>2. PICK q : q = <<"not_found", "end">>
  OBVIOUS
<1>3. Len(q) = 2 /\ q[1] = "not_found" /\ q[2] = "end"
  BY <1>2
<1>4. Ended(q)
  BY <1>1, <1>2, <1>3 DEF Ended, Marks, Final
<1>5. PICK b : b = <<"broken">>
  OBVIOUS
<1>6. Len(b) = 1 /\ b[1] = "broken"
  BY <1>5
<1>7. Ended(b)
  BY <1>1, <1>5, <1>6 DEF Ended, Marks, Final
<1> QED  BY <1>2, <1>3, <1>4, <1>5, <1>6, <1>7

LEMMA SendMessageStep ==
  ASSUME RouteInv, NEW m \in Messages, SendMessage(m) PROVE RouteInv'
<1>1. /\ phase[m] = "calling" /\ phase' = [phase EXCEPT ![m] = "reading"]
      /\ UNCHANGED <<sessions, told, asked, up, stops, of, frames>>
  BY DEF SendMessage, client
<1>2. run[m] = "none" /\ stream[m] = <<>> /\ frames[m] = <<>>
  BY <1>1 DEF RouteInv, MessagesSound, Sound
<1>3. /\ phase' \in [Messages -> Places] /\ phase'[m] = "reading"
      /\ \A k \in Messages : k # m => phase'[k] = phase[k]
  BY <1>1 DEF RouteInv, MessageTypes, Places
<1>4. <<>> \in Seq(Middle) /\ LastOnly(<<>>)
  BY DEF LastOnly
<1>5. CASE up /\ run' = [run EXCEPT ![m] = "running"] /\ UNCHANGED stream
  <2>1. Moving(m) /\ run'[m] = "running"
    BY <1>1, <1>3, <1>5 DEF Moving, RouteInv, MessageTypes, Runs
  <2>2. Sound(phase'[m], run'[m], stream'[m], frames'[m], stops)
    BY <1>1, <1>2, <1>3, <1>4, <1>5, <2>1 DEF Sound
  <2> QED  BY <1>5, <2>1, <2>2, MovingStep
<1>6. ASSUME NEW q, stream' = [stream EXCEPT ![m] = q], UNCHANGED run,
             Ended(q), q[Len(q)] = "broken" => stops > 0
      PROVE  RouteInv'
  <2>1. q \in Seq(Chunks)
    BY <1>6 DEF Ended
  <2>2. Moving(m) /\ stream'[m] = q /\ run'[m] = "none"
    BY <1>1, <1>2, <1>3, <1>6, <2>1 DEF Moving, RouteInv, MessageTypes
  <2>3. Sound(phase'[m], run'[m], stream'[m], frames'[m], stops)
    BY <1>1, <1>2, <1>3, <1>4, <1>6, <2>2 DEF Sound
  <2> QED  BY <2>2, <2>3, MovingStep
<1>7. ~up => stops > 0
  BY DEF RouteInv
<1>8. CASE stream' = [stream EXCEPT ![m] = <<"not_found", "end">>] /\ UNCHANGED run
  BY <1>6, <1>8, ShortStreams
<1>9. CASE ~up /\ stream' = [stream EXCEPT ![m] = <<"broken">>] /\ UNCHANGED run
  BY <1>6, <1>7, <1>9, ShortStreams
<1> QED  BY <1>5, <1>8, <1>9 DEF SendMessage

(* Reading a chunk: of a run that goes on, of one that is over, its mark.  *)
LEMMA ChunkStep ==
  ASSUME RouteInv, NEW m \in Messages, Chunk(m) PROVE RouteInv'
<1>1. /\ phase[m] = "reading" /\ stream[m] # <<>>
      /\ stream' = [stream EXCEPT ![m] = Tail(stream[m])]
      /\ UNCHANGED <<sessions, told, asked, up, stops, of, run>>
  BY DEF Chunk, client, runtime
<1>2. /\ stream[m] \in Seq(Chunks) /\ frames[m] \in Seq(Shown) /\ run[m] \in Runs
      /\ stops \in Nat /\ (run[m] # "none" => up)
      /\ Sound("reading", run[m], stream[m], frames[m], stops)
  BY <1>1 DEF RouteInv, MessageTypes, MessagesSound
<1>3. /\ stream' \in [Messages -> Seq(Chunks)] /\ stream'[m] = Tail(stream[m])
      /\ \A k \in Messages : k # m => stream'[k] = stream[k]
  <2>1. Tail(stream[m]) \in Seq(Chunks)
    BY <1>1, <1>2, HeadTailProperties
  <2> QED  BY <1>1, <2>1 DEF RouteInv, MessageTypes
<1>4. ASSUME Head(stream[m]) \in Shown
      PROVE  /\ SendMsg(m, Head(stream[m])) /\ UNCHANGED phase
             /\ Moving(m) /\ phase'[m] = "reading"
             /\ \/ frames'[m] = frames[m]
                \/ frames'[m] = Append(frames[m], Head(stream[m]))
  <2>1. Head(stream[m]) # "end" /\ Head(stream[m]) # "broken"
    BY <1>4 DEF Shown, Final, Middle
  <2>2. SendMsg(m, Head(stream[m])) /\ UNCHANGED phase
    BY <2>1 DEF Chunk
  <2>3. /\ frames' \in [Messages -> Seq(Shown)]
        /\ \A k \in Messages : k # m => frames'[k] = frames[k]
        /\ frames'[m] = frames[m] \/ frames'[m] = Append(frames[m], Head(stream[m]))
    BY <1>4, <2>2, SendMsgEffect
  <2> QED  BY <1>1, <1>3, <2>2, <2>3 DEF Moving, RouteInv, MessageTypes
<1>5. CASE run[m] # "none"
  <2>1. stream[m] \in Seq(Middle) /\ frames[m] \in Seq(Middle)
    BY <1>2, <1>5 DEF Sound
  <2>2. Head(stream[m]) \in Middle /\ Tail(stream[m]) \in Seq(Middle)
    BY <1>1, <2>1, HeadTailProperties
  <2>3. Head(stream[m]) \in Shown
    BY <2>2 DEF Shown
  <2>4. frames'[m] \in Seq(Middle)
    BY <1>2, <1>4, <2>1, <2>2, <2>3, OneMore
  <2>5. Sound(phase'[m], run'[m], stream'[m], frames'[m], stops)
    BY <1>1, <1>3, <1>4, <1>5, <2>2, <2>3, <2>4 DEF Sound
  <2> QED  BY <1>1, <1>2, <1>4, <2>3, <2>5, MovingStep
<1>6. CASE run[m] = "none" /\ Len(stream[m]) # 1
  <2>1. /\ Ended(stream[m]) /\ LastOnly(frames[m]) /\ frames[m] \in Seq(Middle)
        /\ stream[m][Len(stream[m])] = "broken" => stops > 0
    BY <1>2, <1>6 DEF Sound
  <2>2. /\ Ended(Tail(stream[m])) /\ Head(stream[m]) \in Shown
        /\ Head(stream[m]) \in Final => Len(Tail(stream[m])) = 1
        /\ Tail(stream[m])[Len(Tail(stream[m]))] = stream[m][Len(stream[m])]
    BY <1>6, <2>1, EndedTail
  <2>3. LastOnly(frames'[m])
    BY <1>2, <1>4, <2>1, <2>2, OneMore
  <2>4. frames'[m] \in Seq(Middle) \/ Len(stream'[m]) = 1
    BY <1>2, <1>3, <1>4, <2>1, <2>2, OneMore DEF Shown
  <2>5. Sound(phase'[m], run'[m], stream'[m], frames'[m], stops)
    BY <1>1, <1>3, <1>4, <1>6, <2>1, <2>2, <2>3, <2>4 DEF Sound
  <2> QED  BY <1>1, <1>2, <1>4, <2>2, <2>5, MovingStep
<1>7. CASE run[m] = "none" /\ Len(stream[m]) = 1
  <2>1. /\ Ended(stream[m]) /\ LastOnly(frames[m])
        /\ stream[m][Len(stream[m])] = "broken" => stops > 0
    BY <1>2, <1>7 DEF Sound
  <2>2. Head(stream[m]) \in Marks /\ stream[m][Len(stream[m])] = Head(stream[m])
    BY <1>7, <2>1, EndedMark
  <2>3. phase' = [phase EXCEPT ![m] = "done"]
    BY <2>2 DEF Chunk, Marks
  <2>4. /\ phase' \in [Messages -> Places] /\ phase'[m] = "done"
        /\ \A k \in Messages : k # m => phase'[k] = phase[k]
    BY <2>3 DEF RouteInv, MessageTypes, Places
  <2>5. CASE Head(stream[m]) = "end"
    <3>1. UNCHANGED frames
      BY <2>5 DEF Chunk
    <3>2. "complete" \in Shown
      BY DEF Shown, Final
    <3>3. ClosedWell(frames[m], stops)
      BY <1>2, <2>1, <3>2, OneMore
    <3>4. Moving(m)
      BY <1>1, <1>3, <2>4, <3>1 DEF Moving, RouteInv, MessageTypes
    <3>5. Sound(phase'[m], run'[m], stream'[m], frames'[m], stops)
      BY <1>1, <1>7, <2>4, <3>1, <3>3 DEF Sound
    <3> QED  BY <1>1, <1>7, <3>4, <3>5, MovingStep
  <2>6. CASE Head(stream[m]) = "broken"
    <3>1. SendMsg(m, "agent_error") /\ stops > 0
      BY <2>1, <2>2, <2>6 DEF Chunk
    <3>2. "agent_error" \in Shown
      BY DEF Shown, Final
    <3>3. /\ frames' \in [Messages -> Seq(Shown)]
          /\ \A k \in Messages : k # m => frames'[k] = frames[k]
          /\ frames'[m] = frames[m] \/ frames'[m] = Append(frames[m], "agent_error")
      BY <3>1, <3>2, SendMsgEffect
    <3>4. ClosedWell(frames'[m], stops)
      BY <1>2, <2>1, <3>1, <3>2, <3>3, OneMore
    <3>5. Moving(m)
      BY <1>1, <1>3, <2>4, <3>3 DEF Moving, RouteInv, MessageTypes
    <3>6. Sound(phase'[m], run'[m], stream'[m], frames'[m], stops)
      BY <1>1, <1>7, <2>4, <3>4 DEF Sound
    <3> QED  BY <1>1, <1>7, <3>5, <3>6, MovingStep
  <2> QED  BY <2>2, <2>5, <2>6 DEF Marks
<1> QED  BY <1>5, <1>6, <1>7

(* A decision, by the user or by the clock, writes nothing by itself.      *)
LEMMA VerdictSteps ==
  ASSUME RouteInv, NEW m \in Messages,
         ApprovalTimeout(m) \/ \E v \in {"granted", "denied"} : ApproveToolCall(m, v)
  PROVE  RouteInv'
<1>1. UNCHANGED <<phase, stream, frames, run, up, stops, of, sessions, told, asked>>
  BY DEF ApprovalTimeout, ApproveToolCall, client, gateway
<1> QED  BY <1>1 DEF RouteInv, MessageTypes, MessagesSound, SessionsSound

(* While a run goes on it writes chunks that are not final.                *)
LEMMA WriteSteps ==
  ASSUME RouteInv, NEW m \in Messages, RunStep(m) \/ Decided(m) PROVE RouteInv'
<1>1. /\ UNCHANGED <<sessions, told, asked, up, stops, of, phase, frames>>
      /\ run[m] \in {"running", "asking"}
  BY DEF RunStep, Decided, client
<1>2. PICK c \in Middle : stream' = [stream EXCEPT ![m] = @ \o <<c>>]
  BY DEF RunStep, Decided, Write, Middle
<1>3. /\ run' \in [Messages -> Runs] /\ run'[m] # "none"
      /\ \A k \in Messages : k # m => run'[k] = run[k]
  BY <1>1 DEF RunStep, Decided, RouteInv, MessageTypes, Runs
<1>4. phase[m] = "reading" /\ up
  <2>1. phase[m] \in Places /\ up
    BY <1>1 DEF RouteInv, MessageTypes, MessagesSound
  <2>2. Sound(phase[m], run[m], stream[m], frames[m], stops)
    BY DEF RouteInv, MessagesSound
  <2> QED  BY <1>1, <2>1, <2>2 DEF Sound, Places
<1>5. stream[m] \in Seq(Middle) /\ frames[m] \in Seq(Middle)
  BY <1>1, <1>4 DEF RouteInv, MessagesSound, Sound
<1>6. stream[m] \o <<c>> \in Seq(Middle)
  BY <1>2, <1>5
<1>7. stream[m] \o <<c>> \in Seq(Chunks)
  <2>1. stream[m] \in Seq(Chunks) /\ c \in Chunks
    BY <1>2 DEF RouteInv, MessageTypes, Chunks, Shown
  <2> QED  BY <2>1
<1>8. Moving(m) /\ stream'[m] = stream[m] \o <<c>>
  BY <1>1, <1>2, <1>3, <1>7 DEF Moving, RouteInv, MessageTypes
<1>9. Sound(phase'[m], run'[m], stream'[m], frames'[m], stops)
  BY <1>1, <1>3, <1>4, <1>5, <1>6, <1>8 DEF Sound
<1> QED  BY <1>4, <1>8, <1>9, MovingStep

(* However a run ends, what it writes last is an ended stream.             *)
LEMMA LastWords ==
  ASSUME NEW m, NEW last \in Ends(m)
  PROVE  LET c == last \o <<"end">> IN Ended(c) /\ c[Len(c)] = "end"
<1>1. PICK c : c = last \o <<"end">>
  OBVIOUS
<1>2. PICK e : e = <<"end">>
  OBVIOUS
<1>3. e \in Seq(Chunks) /\ Len(e) = 1 /\ e[1] = "end"
  BY <1>2 DEF Chunks, Marks
<1>4. CASE last = <<"error", "complete">>
  <2>1. /\ last \in Seq(Chunks) /\ Len(last) = 2
        /\ last[1] = "error" /\ last[2] = "complete"
    BY <1>4 DEF Chunks, Shown, Final, Middle
  <2>2. /\ last \o e \in Seq(Chunks) /\ Len(last \o e) = Len(last) + Len(e)
        /\ \A i \in 1..(Len(last) + Len(e)) :
             (last \o e)[i] = IF i <= Len(last) THEN last[i] ELSE e[i - Len(last)]
    BY <1>3, <2>1, ConcatProperties, Zenon
  <2>3. /\ c \in Seq(Chunks) /\ Len(c) = 3
        /\ c[1] = "error" /\ c[2] = "complete" /\ c[3] = "end"
    BY <1>1, <1>2, <1>3, <2>1, <2>2
  <2>4. Ended(c)
    BY <2>3 DEF Ended, Marks, Final
  <2> QED  BY <1>1, <2>3, <2>4
<1>5. CASE \E x \in Final : last = <<x>>
  <2>1. PICK x \in Final : last = <<x>>
    BY <1>5
  <2>2. last \in Seq(Chunks) /\ Len(last) = 1 /\ last[1] = x
    BY <2>1 DEF Chunks, Shown
  <2>3. /\ last \o e \in Seq(Chunks) /\ Len(last \o e) = Len(last) + Len(e)
        /\ \A i \in 1..(Len(last) + Len(e)) :
             (last \o e)[i] = IF i <= Len(last) THEN last[i] ELSE e[i - Len(last)]
    BY <1>3, <2>2, ConcatProperties, Zenon
  <2>4. c \in Seq(Chunks) /\ Len(c) = 2 /\ c[1] = x /\ c[2] = "end"
    BY <1>1, <1>2, <1>3, <2>2, <2>3
  <2>5. Ended(c)
    BY <2>4 DEF Ended, Marks, Final
  <2> QED  BY <1>1, <2>4, <2>5
<1> QED  BY <1>4, <1>5 DEF Ends, Final

LEMMA RunEndsStep ==
  ASSUME RouteInv, NEW m \in Messages, RunEnds(m) PROVE RouteInv'
<1>1. /\ run[m] = "running" /\ run' = [run EXCEPT ![m] = "none"]
      /\ UNCHANGED <<sessions, told, asked, up, stops, of, phase, frames>>
  BY DEF RunEnds, client
<1>2. PICK last \in Ends(m) : stream' = [stream EXCEPT ![m] = @ \o (last \o <<"end">>)]
  BY DEF RunEnds, Write
<1>3. PICK c : c = last \o <<"end">>
  OBVIOUS
<1>4. Ended(c) /\ c[Len(c)] = "end"
  BY <1>2, <1>3, LastWords
<1>5. PICK q : q = stream[m]
  OBVIOUS
<1>6. phase[m] \in Places /\ Sound(phase[m], run[m], q, frames[m], stops)
  BY <1>5 DEF RouteInv, MessageTypes, MessagesSound
<1>7. phase[m] = "reading" /\ q \in Seq(Middle) /\ frames[m] \in Seq(Middle)
  BY <1>1, <1>6 DEF Sound, Places
<1>8. q \in Seq(Chunks) /\ frames[m] \in Seq(Shown)
  BY <1>5 DEF RouteInv, MessageTypes
<1>9. \A i \in 1..Len(q) : q[i] \in Shown /\ q[i] \notin Final
  <2>1. \A i \in 1..Len(q) : q[i] \in Middle
    BY <1>7
  <2> QED  BY <2>1 DEF Shown, Middle, Final
<1>10. SubSeq(q, 1, Len(q)) = q /\ Len(q) \in 0..Len(q)
  BY <1>8
<1>11. Ended(q \o c) /\ (q \o c)[Len(q \o c)] = "end"
  <2>1. \A i \in 1..Len(q) :
          q[i] \in Shown /\ (q[i] \in Final => i = Len(q) /\ Len(c) = 1)
    BY <1>9
  <2>2. /\ Ended(SubSeq(q, 1, Len(q)) \o c)
        /\ (SubSeq(q, 1, Len(q)) \o c)[Len(SubSeq(q, 1, Len(q)) \o c)] = c[Len(c)]
    BY <1>4, <1>8, <1>10, <2>1, EndedAfter, Zenon
  <2> QED  BY <1>4, <1>10, <2>2, Zenon
<1>12. q \o c \in Seq(Chunks)
  BY <1>11 DEF Ended
<1>13. Moving(m) /\ stream'[m] = q \o c /\ run'[m] = "none"
  BY <1>1, <1>2, <1>3, <1>5, <1>12 DEF Moving, RouteInv, MessageTypes, Runs
<1>14. LastOnly(frames[m])
  <2>1. "complete" \in Shown
    BY DEF Shown, Final
  <2> QED  BY <1>7, <1>8, <2>1, OneMore
<1>15. Sound(phase'[m], run'[m], stream'[m], frames'[m], stops)
  BY <1>1, <1>7, <1>11, <1>13, <1>14 DEF Sound
<1> QED  BY <1>13, <1>15, MovingStep

(* A cut stream, with what arrived of it before its run was over or after, *)
(* is an ended one.                                                        *)
LEMMA CutSound ==
  ASSUME NEW r, NEW q \in Seq(Chunks), NEW f \in Seq(Shown), NEW n \in Nat,
         Sound("reading", r, q, f, n), "broken" \notin Range(q),
         NEW k \in 0..Len(q), \A i \in 1..k : q[i] # "end"
  PROVE  Sound("reading", "none", SubSeq(q, 1, k) \o <<"broken">>, f, n + 1)
<1>1. \A i \in 1..Len(q) : q[i] \in Chunks /\ q[i] # "broken"
  BY DEF Range
<1>2. \A i \in 1..k : q[i] \in Shown
  BY <1>1 DEF Chunks, Marks
<1>3. LastOnly(f)
  <2>1. "complete" \in Shown
    BY DEF Shown, Final
  <2> QED  BY <2>1, OneMore DEF Sound
<1>4. /\ \A i \in 1..k : q[i] \in Final => i = k
      /\ f \in Seq(Middle) \/ k = 0
  <2>1. CASE r # "none"
    <3>1. q \in Seq(Middle) /\ f \in Seq(Middle)
      BY <2>1 DEF Sound
    <3>2. \A i \in 1..k : q[i] \in Middle
      BY <3>1
    <3> QED  BY <3>1, <3>2 DEF Middle, Final
  <2>2. CASE r = "none"
    <3>1. Ended(q) /\ (f \in Seq(Middle) \/ Len(q) = 1)
      BY <2>2 DEF Sound
    <3>2. k # Len(q)
      BY <1>1, <3>1 DEF Ended, Marks
    <3> QED  BY <3>1, <3>2 DEF Ended
  <2> QED  BY <2>1, <2>2
<1>5. PICK b : b = <<"broken">>
  OBVIOUS
<1>6. Ended(b) /\ Len(b) = 1 /\ b[Len(b)] = "broken"
  BY <1>5, ShortStreams
<1>7. \A i \in 1..k : q[i] \in Shown /\ (q[i] \in Final => i = k /\ Len(b) = 1)
  BY <1>2, <1>4, <1>6
<1>8. /\ Ended(SubSeq(q, 1, k) \o b)
      /\ (SubSeq(q, 1, k) \o b)[Len(SubSeq(q, 1, k) \o b)] = b[Len(b)]
      /\ Len(SubSeq(q, 1, k) \o b) = k + Len(b)
  BY <1>6, <1>7, EndedAfter, Zenon
<1>9. k = 0 => Len(SubSeq(q, 1, k) \o b) = 1
  BY <1>6, <1>8
<1>10. n + 1 > 0
  OBVIOUS
<1> QED  BY <1>3, <1>4, <1>5, <1>8, <1>9, <1>10 DEF Sound

(* A stream that no cut changes stays sound after one more stop.           *)
LEMMA KeptSound ==
  ASSUME NEW p \in Places, NEW r, NEW q \in Seq(Chunks), NEW f, NEW n \in Nat,
         Sound(p, r, q, f, n), p # "reading" \/ "broken" \in Range(q) \/ "end" \in Range(q)
  PROVE  Sound(p, "none", q, f, n + 1)
<1>1. p = "reading" => r = "none"
  <2>1. ASSUME q \in Seq(Middle) PROVE "broken" \notin Range(q) /\ "end" \notin Range(q)
    <3>1. \A i \in DOMAIN q : q[i] \in Middle
      BY <2>1
    <3> QED  BY <3>1 DEF Range, Middle
  <2> QED  BY <2>1 DEF Sound
<1>2. n + 1 > 0
  OBVIOUS
<1> QED  BY <1>1, <1>2 DEF Sound, ClosedWell, Places

LEMMA StopStep == ASSUME RouteInv, Stop PROVE RouteInv'
<1>1. /\ up' = FALSE /\ stops' = stops + 1 /\ sessions' = {}
      /\ run' = [m \in Messages |-> "none"] /\ asked' = [s \in Sessions |-> "none"]
      /\ UNCHANGED <<told, of, phase, frames>>
      /\ stops \in Nat
  BY DEF Stop, client, RouteInv
<1>2. /\ DOMAIN stream' = Messages /\ stream' = [m \in Messages |-> stream'[m]]
      /\ \A m \in Messages : stream'[m] \in Cut(m)
  BY DEF Stop
<1>3. ASSUME NEW m \in Messages
      PROVE  Sound(phase[m], "none", stream'[m], frames[m], stops + 1)
  <2>1. /\ stream[m] \in Seq(Chunks) /\ frames[m] \in Seq(Shown) /\ phase[m] \in Places
        /\ Sound(phase[m], run[m], stream[m], frames[m], stops)
    BY DEF RouteInv, MessageTypes, MessagesSound
  <2>2. \/ /\ stream'[m] = stream[m]
           /\ phase[m] # "reading" \/ "broken" \in Range(stream[m])
                                   \/ "end" \in Range(stream[m])
        \/ /\ phase[m] = "reading" /\ "broken" \notin Range(stream[m])
           /\ \E k \in 0..Len(stream[m]) :
                /\ stream'[m] = SubSeq(stream[m], 1, k) \o <<"broken">>
                /\ \A i \in 1..k : stream[m][i] # "end"
    BY <1>2 DEF Cut
  <2> QED  BY <1>1, <2>1, <2>2, CutSound, KeptSound
<1>4. ASSUME NEW m \in Messages PROVE stream'[m] \in Seq(Chunks)
  <2>1. CASE stream'[m] = stream[m]
    BY <2>1 DEF RouteInv, MessageTypes
  <2>2. CASE stream'[m] # stream[m]
    <3>1. phase[m] = "reading"
      BY <1>2, <2>2 DEF Cut
    <3>2. Ended(stream'[m])
      BY <1>3, <3>1 DEF Sound
    <3> QED  BY <3>2 DEF Ended
  <2> QED  BY <2>1, <2>2
<1>5. MessageTypes'
  BY <1>1, <1>2, <1>4 DEF RouteInv, MessageTypes, Runs
<1>6. MessagesSound'
  BY <1>1, <1>3 DEF MessagesSound
<1>7. SessionsSound'
  BY <1>1 DEF RouteInv, SessionsSound, Requested
<1>8. stops' \in Nat /\ stops' > 0
  <2>1. stops \in Nat /\ stops' = stops + 1
    BY <1>1
  <2> QED  BY <2>1
<1>9. up' \in BOOLEAN
  <2>1. up' = FALSE
    BY <1>1
  <2> QED  BY <2>1
<1> QED  BY <1>1, <1>5, <1>6, <1>7, <1>8, <1>9 DEF RouteInv

LEMMA RouteInvStep == ASSUME RouteInv, [Next]_vars PROVE RouteInv'
<1>1. CASE Start
  <2>1. /\ UNCHANGED <<phase, stream, frames, run, stops, of, sessions, told, asked>>
        /\ up' = TRUE
    BY <1>1 DEF Start, client, gateway, runtime
  <2> QED  BY <2>1 DEF RouteInv, MessageTypes, MessagesSound, SessionsSound
<1>2. CASE UNCHANGED vars
  <2>1. UNCHANGED <<phase, stream, frames, run, stops, up, of, sessions, told, asked>>
    BY <1>2 DEF vars, client, gateway, runtime
  <2> QED  BY <2>1 DEF RouteInv, MessageTypes, MessagesSound, SessionsSound
<1>3. ASSUME NEW m \in Messages, MessageNext(m) PROVE RouteInv'
  BY <1>3, BeginSteps, SendMessageStep, ChunkStep, VerdictSteps, WriteSteps, RunEndsStep
     DEF MessageNext
<1> QED  BY <1>1, <1>2, <1>3, SessionSteps, StopStep DEF Next

(* chat.route.ts, agent.impl.ts: after a message's final frame nothing of  *)
(* it is sent, but for the error of a stream that broke first.             *)
THEOREM ClosedAlwaysOnce == Spec => []ClosedOnce
<1>1. Init => RouteInv
  BY RouteInvInit
<1>2. RouteInv /\ [Next]_vars => RouteInv'
  BY RouteInvStep
<1>3. RouteInv => ClosedOnce
  <2> SUFFICES ASSUME RouteInv, NEW m \in Messages, NEW i \in 1..(Len(frames[m]) - 1),
                      frames[m][i] \in Final
               PROVE  /\ i = Len(frames[m]) - 1 /\ frames[m][i + 1] = "agent_error"
                      /\ stops > 0
    BY DEF ClosedOnce
  <2>1. /\ frames[m] \in Seq(Shown) /\ phase[m] \in Places
        /\ Sound(phase[m], run[m], stream[m], frames[m], stops)
    BY DEF RouteInv, MessageTypes, MessagesSound
  <2>2. phase[m] # "done" => LastOnly(frames[m])
    <3>1. "complete" \in Shown
      BY DEF Shown, Final
    <3>2. <<>> \in Seq(Middle)
      OBVIOUS
    <3> QED  BY <2>1, <3>1, <3>2, OneMore DEF Sound, Places
  <2> QED  BY <2>1, <2>2 DEF Sound, LastOnly, ClosedWell
<1> QED  BY <1>1, <1>2, <1>3, PTL DEF Spec

(* Type correctness of the routes, and with it that only a live runtime    *)
(* has runs, and only for messages the gateway is reading.                 *)
THEOREM RouteTypeCorrect == Spec => []RouteTypeOK
<1>1. Init => RouteInv
  BY RouteInvInit
<1>2. RouteInv /\ [Next]_vars => RouteInv'
  BY RouteInvStep
<1>3. RouteInv => RouteTypeOK
  BY DEF RouteInv, RouteTypeOK, MessageTypes, MessagesSound, Sound, SessionsSound,
         Places, Runs, Shown
<1> QED  BY <1>1, <1>2, <1>3, PTL DEF Spec

(* session.ts: once the client knows that its session is over, no message  *)
(* sent to it begins a run.                                                *)
THEOREM NoneBegunLate == Spec => NoneBegunAfterEnd
<1>1. Init => RouteInv
  BY RouteInvInit
<1>2. RouteInv /\ [Next]_vars => RouteInv'
  BY RouteInvStep
<1>3. RouteInv /\ [Next]_vars =>
        [\A m \in Messages : told[of[m]] = "gone" => ~(run[m] = "none" /\ run'[m] # "none")]_vars
  <2> SUFFICES ASSUME RouteInv, Next, NEW m \in Messages, told[of[m]] = "gone",
                      run[m] = "none", run'[m] # "none"
               PROVE  FALSE
    BY Zenon
  <2>1. of[m] \in Sessions /\ of[m] \notin sessions /\ run \in [Messages -> Runs]
    BY DEF RouteInv, SessionsSound, MessageTypes
  <2>2. ASSUME NEW k \in Messages, SendMessage(k) PROVE FALSE
    BY <2>1, <2>2 DEF SendMessage
  <2>3. ASSUME NEW k \in Messages, RunStep(k) \/ Decided(k) \/ RunEnds(k) PROVE FALSE
    BY <2>1, <2>3 DEF RunStep, Decided, RunEnds, Write
  <2>4. run' # run
    OBVIOUS
  <2>5. CASE Stop
    BY <2>5 DEF Stop
  <2>6. ASSUME NEW k \in Messages, MessageNext(k) PROVE FALSE
    BY <2>2, <2>3, <2>4, <2>6 DEF MessageNext, Message, CostChecked, Chunk, ApprovalTimeout,
         ApproveToolCall, runtime
  <2>7. ASSUME NEW s \in Sessions, SessionNext(s) PROVE FALSE
    BY <2>4, <2>7 DEF SessionNext, PostSession, CreateSession, CreateAnswered, DeleteSession,
         TerminateSession, DeleteAnswered, StatusNotFound, Connect, Closes, runtime
  <2> QED  BY <2>4, <2>5, <2>6, <2>7 DEF Next, TokenExpires, Start, runtime
<1> QED  BY <1>1, <1>2, <1>3, PTL DEF Spec, NoneBegunAfterEnd
=============================================================================
