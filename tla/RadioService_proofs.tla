------------------------ MODULE RadioService_proofs -------------------------
(***************************************************************************)
(* Proofs about RadioService for any set of ids and any number of          *)
(* requests, packets and losses.                                           *)
(***************************************************************************)
EXTENDS RadioService, SequenceTheorems, FiniteSetTheorems, TLAPS

(* Sequences without repetition.                                            *)
Elems(s) == {s[i] : i \in 1 .. Len(s)}
NoRepeat(s) == \A i, j \in 1 .. Len(s) : s[i] = s[j] => i = j

LEMMA EmptyElems == Elems(<<>>) = {} /\ NoRepeat(<<>>)
  BY DEF Elems, NoRepeat

LEMMA AppendElems ==
  ASSUME NEW S, NEW s \in Seq(S), NEW e \in S
  PROVE  /\ Append(s, e) \in Seq(S)
         /\ Elems(Append(s, e)) = Elems(s) \cup {e}
         /\ NoRepeat(s) /\ e \notin Elems(s) => NoRepeat(Append(s, e))
<1> DEFINE t == Append(s, e)
           n == Len(s)
<1>1. /\ t \in Seq(S) /\ Len(t) = n + 1 /\ n \in Nat
      /\ \A i \in 1 .. n : t[i] = s[i]
      /\ t[n + 1] = e
  BY AppendProperties, LenProperties
<1> HIDE DEF t, n
<1>2. 1 .. Len(t) = (1 .. n) \cup {n + 1} /\ n + 1 \notin 1 .. n
  BY <1>1
<1>3. Elems(t) = Elems(s) \cup {e}
  BY <1>1, <1>2 DEF Elems, n
<1>4. NoRepeat(s) /\ e \notin Elems(s) => NoRepeat(t)
  BY <1>1, <1>2 DEF NoRepeat, Elems, n
<1> QED BY <1>1, <1>3, <1>4 DEF t

LEMMA ConcatElems ==
  ASSUME NEW S, NEW s \in Seq(S), NEW t \in Seq(S)
  PROVE  /\ s \o t \in Seq(S)
         /\ Elems(s \o t) = Elems(s) \cup Elems(t)
         /\ NoRepeat(s) /\ NoRepeat(t) /\ Elems(s) \cap Elems(t) = {} => NoRepeat(s \o t)
<1> DEFINE u == s \o t
           m == Len(s)
           n == Len(t)
<1>1. /\ u \in Seq(S) /\ Len(u) = m + n /\ m \in Nat /\ n \in Nat
      /\ \A i \in 1 .. m + n : u[i] = IF i <= m THEN s[i] ELSE t[i - m]
  BY ConcatProperties, LenProperties
<1> HIDE DEF u, m, n
<1>2. /\ \A i \in 1 .. m : i \in 1 .. Len(u) /\ u[i] = s[i]
      /\ \A i \in 1 .. n : i + m \in 1 .. Len(u) /\ u[i + m] = t[i]
      /\ \A i \in 1 .. Len(u) : i \in 1 .. m \/ i - m \in 1 .. n
      /\ \A i \in 1 .. Len(u) : i \in 1 .. m => u[i] = s[i]
      /\ \A i \in 1 .. Len(u) : i \notin 1 .. m => i - m \in 1 .. n /\ u[i] = t[i - m]
  BY <1>1
<1>3. Elems(u) = Elems(s) \cup Elems(t)
  <2>1. \A x \in Elems(u) : x \in Elems(s) \cup Elems(t)
    BY <1>2, ZenonT(60) DEF Elems, m, n
  <2>2. \A x \in Elems(s) : x \in Elems(u)
    BY <1>2 DEF Elems, m
  <2>3. \A x \in Elems(t) : x \in Elems(u)
    <3> SUFFICES ASSUME NEW i \in 1 .. n PROVE t[i] \in Elems(u)
      BY DEF Elems, n
    <3>1. i + m \in 1 .. Len(u) /\ u[i + m] = t[i]
      BY <1>2
    <3> QED BY <3>1 DEF Elems
  <2> QED BY <2>1, <2>2, <2>3
<1>4. ASSUME NoRepeat(s), NoRepeat(t), Elems(s) \cap Elems(t) = {} PROVE NoRepeat(u)
  <2> SUFFICES ASSUME NEW i \in 1 .. Len(u), NEW j \in 1 .. Len(u), u[i] = u[j] PROVE i = j
    BY DEF NoRepeat
  <2>1. CASE i \in 1 .. m /\ j \in 1 .. m
    BY <2>1, <1>2, <1>4 DEF NoRepeat, m
  <2>2. CASE i \notin 1 .. m /\ j \notin 1 .. m
    <3>1. i - m \in 1 .. n /\ j - m \in 1 .. n /\ t[i - m] = t[j - m]
      BY <2>2, <1>2
    <3>2. \A k, l \in 1 .. n : t[k] = t[l] => k = l
      BY <1>4 DEF NoRepeat, n
    <3>3. i - m = j - m
      BY <3>1, <3>2
    <3> QED BY <3>3, <1>1
  <2>3. CASE i \in 1 .. m /\ j \notin 1 .. m
    <3>1. u[i] \in Elems(s) /\ u[j] \in Elems(t)
      BY <2>3, <1>2 DEF Elems, m, n
    <3> QED BY <3>1, <1>4
  <2>4. CASE i \notin 1 .. m /\ j \in 1 .. m
    <3>1. u[j] \in Elems(s) /\ u[i] \in Elems(t)
      BY <2>4, <1>2 DEF Elems, m, n
    <3> QED BY <3>1, <1>4
  <2> QED BY <2>1, <2>2, <2>3, <2>4
<1> QED BY <1>1, <1>3, <1>4 DEF u

LEMMA TailElems ==
  ASSUME NEW S, NEW s \in Seq(S), s # <<>>
  PROVE  /\ Tail(s) \in Seq(S) /\ Head(s) \in S /\ Head(s) \in Elems(s)
         /\ Elems(Tail(s)) \subseteq Elems(s)
         /\ NoRepeat(s) => NoRepeat(Tail(s)) /\ Elems(Tail(s)) = Elems(s) \ {Head(s)}
<1> DEFINE t == Tail(s)
           n == Len(s)
<1>1. /\ t \in Seq(S) /\ n \in Nat \ {0} /\ Len(t) = n - 1
      /\ \A i \in 1 .. Len(t) : t[i] = s[i + 1]
      /\ Head(s) = s[1] /\ Head(s) \in S
  BY HeadTailProperties, EmptySeq
<1> HIDE DEF t, n
<1>2. /\ \A i \in 1 .. Len(t) : i + 1 \in 1 .. n /\ i + 1 # 1 /\ t[i] = s[i + 1]
      /\ \A i \in 1 .. n : i # 1 => i - 1 \in 1 .. Len(t) /\ t[i - 1] = s[i]
      /\ 1 \in 1 .. n
  <2>1. \A i \in 1 .. n : i # 1 => i - 1 \in 1 .. Len(t) /\ (i - 1) + 1 = i
    BY <1>1
  <2> QED BY <1>1, <2>1
<1>3. Head(s) \in Elems(s) /\ Elems(t) \subseteq Elems(s)
  BY <1>1, <1>2 DEF Elems, n
<1>4. ASSUME NoRepeat(s) PROVE NoRepeat(t) /\ Elems(t) = Elems(s) \ {Head(s)}
  <2>1. NoRepeat(t)
    <3> SUFFICES ASSUME NEW i \in 1 .. Len(t), NEW j \in 1 .. Len(t), t[i] = t[j] PROVE i = j
      BY DEF NoRepeat
    <3>1. i + 1 = j + 1
      BY <1>2, <1>4 DEF NoRepeat, n
    <3> QED BY <3>1
  <2>2. \A x \in Elems(t) : x # Head(s)
    BY <1>1, <1>2, <1>4 DEF Elems, NoRepeat, n
  <2>3. \A x \in Elems(s) : x # Head(s) => x \in Elems(t)
    BY <1>1, <1>2 DEF Elems, n
  <2> QED BY <2>1, <2>2, <2>3, <1>3
<1> QED BY <1>1, <1>3, <1>4 DEF t

-----------------------------------------------------------------------------
(* The replies in a sequence of messages.                                   *)
AnswersOf(s) == {s[i].to : i \in {j \in 1 .. Len(s) : s[j].type = "Reply"}}
AnsweredOnce(s) ==
  \A i, j \in 1 .. Len(s) :
    s[i].type = "Reply" /\ s[j].type = "Reply" /\ s[i].to = s[j].to => i = j

-----------------------------------------------------------------------------
(* The inductive invariant.                                                 *)

\* What the two channels and the request task hold in each of their states.
Control ==
  /\ req_slot = IF mac = "sending" THEN {issued} ELSE {}
  /\ requester \in {"next", "stopped"} => current = {} /\ request_id = {}
  /\ requester = "lock" => \E token \in Tokens : current = {token} /\ request_id = {}
  /\ requester = "write" =>
       \E parser \in Parsers : current = {parser.token} /\ request_id = {parser.id}
  /\ mac = "panicked" => requester # "lock"
  /\ responder = "read" => resp_slot = {}
  /\ lock_held => \E response \in resp_slot : response.type = "Reply"
  /\ \A r1, r2 \in resp_slot : r1 = r2

\* The map holds one parser for an id and one for a request.
MapInv ==
  /\ \A p1, p2 \in responsemap : p1.id = p2.id => p1 = p2
  /\ \A p1, p2 \in responsemap : p1.token = p2.token => p1 = p2

\* A registered request is in at most one place between the request task and
\* the response task, and once in it; unless another's reply was taken for its
\* answer, its parser is still there.
Writing == IF requester = "write" THEN {Request} ELSE {}
Mistaken == {m.token : m \in mistaken}
Known == {r \in [id : Ids, token : {0} \cup Tokens] :
            r \in responsemap \/ r.token \in {0} \cup Mistaken}

WireInv ==
  /\ NoRepeat(buffer) /\ NoRepeat(wire_out) /\ AnsweredOnce(wire_in)
  /\ Writing \cup Elems(buffer) \cup Elems(wire_out) \cup AnswersOf(wire_in) \subseteq Known
  /\ Writing \cap Elems(buffer) = {} /\ Writing \cap Elems(wire_out) = {}
  /\ Writing \cap AnswersOf(wire_in) = {}
  /\ Elems(buffer) \cap Elems(wire_out) = {} /\ Elems(buffer) \cap AnswersOf(wire_in) = {}
  /\ Elems(wire_out) \cap AnswersOf(wire_in) = {}

\* The places a request can be in, from the MAC's send to its answer.
Registered == {p.token : p \in responsemap}
Working == IF requester = "lock" THEN current ELSE {}
Delivering == {r.to.token : r \in {m \in resp_slot : m.type = "Reply"}}

Places ==
  mac # "panicked" =>
    /\ 1 .. issued = req_slot \cup Working \cup Registered \cup Delivering \cup answered
    /\ req_slot \cap Working = {} /\ req_slot \cap Registered = {}
    /\ req_slot \cap Delivering = {} /\ req_slot \cap answered = {}
    /\ Working \cap Registered = {} /\ Working \cap Delivering = {} /\ Working \cap answered = {}
    /\ Registered \cap Delivering = {} /\ Registered \cap answered = {}
    /\ Delivering \cap answered = {}

\* A request that was given another's reply has its answer; the first such reply
\* was one of an earlier process.
MistakenInv ==
  /\ mac # "panicked" => Mistaken \subseteq Delivering \cup answered
  /\ mistaken # {} => \E m \in mistaken : m.by = 0

\* During the start-up there is one request at a time.
StartUpInv ==
  /\ issued + todo <= MaxRequests
  /\ Starting => todo = 0
  /\ Starting /\ mac = "ready" => answered = 1 .. issued
  /\ mac = "waiting" \/ (mac = "sending" /\ Starting) =>
       issued >= 1 /\ answered = 1 .. (issued - 1)
  /\ mac = "waiting" => Starting

IndInv == TypeOK /\ Control /\ MapInv /\ WireInv /\ Places /\ MistakenInv /\ StartUpInv

-----------------------------------------------------------------------------
(* Lemmas about the operators.                                              *)
LEMMA MessageTypes ==
  /\ Packet \in Messages /\ Packet.type = "OnPacket"
  /\ Junk \in Messages /\ Junk.type = "Junk"
  /\ \A p \in [id : Ids, token : {0} \cup Tokens], ok \in BOOLEAN :
       /\ Reply(p, ok) \in Messages /\ Reply(p, ok).type = "Reply"
       /\ Reply(p, ok).to = p /\ Reply(p, ok).ok = ok
  /\ \A m \in Messages :
       m.type = "Reply" => m.to \in [id : Ids, token : {0} \cup Tokens] /\ m.ok \in BOOLEAN
  BY DEF Messages, Packet, Junk, Reply

LEMMA ResponseTypes ==
  /\ Packet \in Responses
  /\ \A p \in Parsers, ok \in BOOLEAN :
       /\ Reply(p, ok) \in Responses /\ Reply(p, ok).type = "Reply"
       /\ Reply(p, ok).to = p /\ p \in [id : Ids, token : {0} \cup Tokens]
  /\ \A m \in Responses : m.type = "Reply" => m.to \in Parsers /\ m.to.token \in Tokens
  BY DEF Responses, Packet, Reply, Parsers

LEMMA ParserTypes ==
  \A p \in Parsers : p.id \in Ids /\ p.token \in Tokens /\ p = [id |-> p.id, token |-> p.token]
  BY DEF Parsers

LEMMA EmptyAnswers ==
  AnswersOf(<<>>) = {} /\ AnsweredOnce(<<>>)
  BY DEF AnswersOf, AnsweredOnce

LEMMA AppendAnswers ==
  ASSUME NEW s \in Seq(Messages), NEW m \in Messages
  PROVE  /\ m.type # "Reply" => AnswersOf(Append(s, m)) = AnswersOf(s)
         /\ m.type = "Reply" => AnswersOf(Append(s, m)) = AnswersOf(s) \cup {m.to}
         /\ AnsweredOnce(s) /\ (m.type = "Reply" => m.to \notin AnswersOf(s))
              => AnsweredOnce(Append(s, m))
<1> DEFINE t == Append(s, m)
           n == Len(s)
<1>1. /\ Len(t) = n + 1 /\ n \in Nat
      /\ \A i \in 1 .. n : t[i] = s[i]
      /\ t[n + 1] = m
  BY AppendProperties, LenProperties
<1> HIDE DEF t, n
<1>2. 1 .. Len(t) = (1 .. n) \cup {n + 1} /\ n + 1 \notin 1 .. n
  BY <1>1
<1>3. ASSUME m.type # "Reply" PROVE AnswersOf(t) = AnswersOf(s)
  BY <1>1, <1>2, <1>3 DEF AnswersOf, n
<1>4. ASSUME m.type = "Reply" PROVE AnswersOf(t) = AnswersOf(s) \cup {m.to}
  BY <1>1, <1>2, <1>4 DEF AnswersOf, n
<1>5. ASSUME AnsweredOnce(s), m.type = "Reply" => m.to \notin AnswersOf(s)
      PROVE  AnsweredOnce(t)
  BY <1>1, <1>2, <1>5 DEF AnsweredOnce, AnswersOf, n
<1> QED BY <1>3, <1>4, <1>5 DEF t

LEMMA TailAnswers ==
  ASSUME NEW s \in Seq(Messages), s # <<>>
  PROVE  /\ Head(s) \in Messages
         /\ Head(s).type = "Reply" => Head(s).to \in AnswersOf(s)
         /\ AnswersOf(Tail(s)) \subseteq AnswersOf(s)
         /\ Head(s).type # "Reply" => AnswersOf(Tail(s)) = AnswersOf(s)
         /\ AnsweredOnce(s) => AnsweredOnce(Tail(s))
         /\ AnsweredOnce(s) /\ Head(s).type = "Reply"
              => AnswersOf(Tail(s)) = AnswersOf(s) \ {Head(s).to}
<1> DEFINE t == Tail(s)
           n == Len(s)
<1>1. /\ n \in Nat \ {0} /\ Len(t) = n - 1
      /\ \A i \in 1 .. Len(t) : t[i] = s[i + 1]
      /\ Head(s) = s[1] /\ Head(s) \in Messages
  BY HeadTailProperties, EmptySeq
<1> HIDE DEF t, n
<1>2. /\ \A i \in 1 .. Len(t) : i + 1 \in 1 .. n /\ i + 1 # 1 /\ t[i] = s[i + 1]
      /\ \A i \in 1 .. n : i # 1 => i - 1 \in 1 .. Len(t) /\ t[i - 1] = s[i]
      /\ 1 \in 1 .. n
  <2>1. \A i \in 1 .. n : i # 1 => i - 1 \in 1 .. Len(t) /\ (i - 1) + 1 = i
    BY <1>1
  <2> QED BY <1>1, <2>1
<1>3. AnswersOf(t) \subseteq AnswersOf(s)
  BY <1>2 DEF AnswersOf, n
<1>4. Head(s).type = "Reply" => Head(s).to \in AnswersOf(s)
  BY <1>1, <1>2 DEF AnswersOf, n
<1>5. \A x \in AnswersOf(s) :
        x \in AnswersOf(t) \/ (Head(s).type = "Reply" /\ x = Head(s).to)
  <2> SUFFICES ASSUME NEW i \in 1 .. n, s[i].type = "Reply",
                      ~(Head(s).type = "Reply" /\ s[i].to = Head(s).to)
               PROVE  s[i].to \in AnswersOf(t)
    BY DEF AnswersOf, n
  <2>1. i # 1
    BY <1>1
  <2> QED BY <2>1, <1>2 DEF AnswersOf
<1>6. ASSUME AnsweredOnce(s) PROVE AnsweredOnce(t)
  <2> SUFFICES ASSUME NEW i \in 1 .. Len(t), NEW j \in 1 .. Len(t), t[i].type = "Reply",
                      t[j].type = "Reply", t[i].to = t[j].to
               PROVE  i = j
    BY DEF AnsweredOnce
  <2>1. /\ i + 1 \in 1 .. n /\ t[i] = s[i + 1]
        /\ j + 1 \in 1 .. n /\ t[j] = s[j + 1]
    BY <1>2
  <2>2. \A k, l \in 1 .. n :
          s[k].type = "Reply" /\ s[l].type = "Reply" /\ s[k].to = s[l].to => k = l
    BY <1>6 DEF AnsweredOnce, n
  <2>3. i + 1 = j + 1
    BY <2>1, <2>2
  <2> QED BY <2>3
<1>7. ASSUME AnsweredOnce(s), Head(s).type = "Reply" PROVE Head(s).to \notin AnswersOf(t)
  BY <1>1, <1>2, <1>7 DEF AnsweredOnce, AnswersOf, n
<1> QED BY <1>1, <1>3, <1>4, <1>5, <1>6, <1>7 DEF t

\* The request being written is the one a parser was registered for.
LEMMA WritingIsRegistered ==
  ASSUME TypeOK, Control, requester = "write"
  PROVE  /\ Request \in Parsers
         /\ current = {Request.token} /\ request_id = {Request.id}
<1> PICK parser \in Parsers : current = {parser.token} /\ request_id = {parser.id}
  BY DEF Control
<1>1. (CHOOSE id \in request_id : TRUE) = parser.id
  OBVIOUS
<1>2. (CHOOSE token \in current : TRUE) = parser.token
  OBVIOUS
<1>3. parser \in Parsers /\ parser = [id |-> parser.id, token |-> parser.token]
  BY ParserTypes DEF TypeOK
<1>4. Request = parser
  BY <1>1, <1>2, <1>3 DEF Request
<1> QED BY <1>3, <1>4

\* Tokens are numbers, so the places are finite sets.
LEMMA FiniteTokens ==
  ASSUME NEW T \in SUBSET Tokens
  PROVE  IsFiniteSet(T) /\ Cardinality(T) \in Nat
<1>1. IsFiniteSet(Tokens)
  BY RadioServiceAssumption, FS_Interval DEF Tokens
<1> QED BY <1>1, FS_Subset, FS_CardinalityType

LEMMA CountUpTo ==
  ASSUME NEW n \in Nat
  PROVE  IsFiniteSet(1 .. n) /\ Cardinality(1 .. n) = n
  BY FS_Interval

LEMMA CountDisjoint ==
  ASSUME NEW A, NEW B, IsFiniteSet(A), IsFiniteSet(B), A \cap B = {}
  PROVE  /\ IsFiniteSet(A \cup B)
         /\ Cardinality(A \cup B) = Cardinality(A) + Cardinality(B)
<1>1. Cardinality(A \cap B) = 0
  BY FS_EmptySet
<1> QED BY <1>1, FS_Union, FS_CardinalityType

-----------------------------------------------------------------------------
(* Init and the steps.                                                      *)
LEMMA InitInv == Init => IndInv
<1> SUFFICES ASSUME Init PROVE IndInv
  OBVIOUS
<1> DEFINE Stale == [id : Ids, token : {0}]
<1>1. \A m \in {Junk} \cup OldReplies :
        /\ m \in Messages
        /\ m.type = "Reply" => m.to \in Stale
  BY MessageTypes, RadioServiceAssumption DEF OldReplies, Messages
<1>10. <<>> \in Seq(Parsers) /\ <<>> \in Seq(Messages)
  OBVIOUS
<1>11. \/ wire_in = <<>>
       \/ \E m \in {Junk} \cup OldReplies : wire_in = <<m>>
  <2>1. wire_in \in LeftOver
    BY DEF Init
  <2> QED BY <2>1, Zenon DEF LeftOver
<1>2. TypeOK
  <2>1. lock_held \in BOOLEAN /\ wire_in \in Seq(Messages)
    <3>1. \A m \in Messages : <<m>> \in Seq(Messages)
      OBVIOUS
    <3>2. wire_in \in Seq(Messages)
      BY <3>1, <1>1, <1>10, <1>11, Zenon
    <3> QED BY <3>2 DEF Init
  <2>2. 0 \in 0 .. Burst /\ 0 \in 0 .. MaxRequests /\ 0 \in 0 .. MaxPackets /\ 0 \in 0 .. MaxLost
    BY RadioServiceAssumption
  <2> QED BY <1>10, <2>1, <2>2 DEF Init, TypeOK
<1>3. Control /\ MapInv
  BY DEF Init, Control, MapInv
<1>4. AnswersOf(wire_in) \subseteq Stale /\ AnsweredOnce(wire_in)
  <2>1. ASSUME NEW m \in {Junk} \cup OldReplies
        PROVE  AnswersOf(<<m>>) \subseteq Stale /\ AnsweredOnce(<<m>>)
    <3> HIDE DEF Stale
    <3>1. Len(<<m>>) = 1 /\ << m >>[1] = m /\ 1 .. 1 = {1}
      OBVIOUS
    <3> QED BY <1>1, <3>1 DEF AnswersOf, AnsweredOnce
  <2> QED BY <1>11, <2>1, EmptyAnswers
<1>5. WireInv
  <2>1. Stale \subseteq Known
    BY DEF Known
  <2> HIDE DEF Stale
  <2> QED BY <1>4, <2>1, EmptyElems DEF Init, WireInv, Writing
<1>8. MistakenInv
  BY DEF Init, MistakenInv, Mistaken
<1>6. Places
  BY DEF Init, Places, Registered, Working, Delivering
<1>7. StartUpInv
  <2>1. 1 .. 0 = {}
    OBVIOUS
  <2> QED BY <2>1, RadioServiceAssumption DEF Init, StartUpInv
<1> QED BY <1>2, <1>3, <1>5, <1>6, <1>7, <1>8 DEF IndInv

\* What a reply from the device is: of a request whose parser is still there, or
\* was used for another's reply, or of an earlier process.
LEMMA ReplyHasParser ==
  ASSUME IndInv, wire_in # <<>>, Head(wire_in).type = "Reply"
  PROVE  /\ Head(wire_in) \in Messages /\ Head(wire_in).to \in AnswersOf(wire_in)
         /\ Head(wire_in).ok \in BOOLEAN
         /\ Head(wire_in).to \in Known /\ Head(wire_in).to.token \in {0} \cup Tokens
         /\ \A p \in ParsersFor(Head(wire_in)) :
              \/ p = Head(wire_in).to
              \/ Head(wire_in).to.token \in {0} \cup Mistaken
<1> DEFINE m == Head(wire_in)
<1>1. wire_in \in Seq(Messages)
  BY DEF IndInv, TypeOK
<1>2. m \in Messages /\ m.to \in AnswersOf(wire_in)
  BY <1>1, TailAnswers
<1>3. /\ m.to \in Known /\ m.ok \in BOOLEAN
      /\ m.to \in [id : Ids, token : {0} \cup Tokens]
  BY <1>2, MessageTypes DEF IndInv, WireInv
<1> HIDE DEF m
<1>4. \A p \in responsemap :
        p.id = m.to.id => p = m.to \/ m.to.token \in {0} \cup Mistaken
  BY <1>3 DEF IndInv, MapInv, Known
<1>5. m.to.token \in {0} \cup Tokens
  BY <1>3
<1> QED BY <1>2, <1>3, <1>4, <1>5 DEF m, ParsersFor

\* During the start-up the only request that can be answered is the last one.
LEMMA StartUpAnswers ==
  ASSUME IndInv, mac = "waiting", NEW response \in resp_slot
  PROVE  Answer(response) = {} \/ Answer(response) = {issued}
<1>1. issued \in Nat /\ issued >= 1 /\ answered = 1 .. (issued - 1)
  BY DEF IndInv, StartUpInv, TypeOK
<1>2. Answer(response) \subseteq Delivering
  BY DEF Answer, Delivering
<1>3. Delivering \cap answered = {} /\ Delivering \subseteq 1 .. issued
  BY DEF IndInv, Places
<1>4. \A x \in 1 .. issued : x \in 1 .. (issued - 1) \/ x = issued
  BY <1>1
<1>5. Answer(response) \subseteq {issued}
  BY <1>1, <1>2, <1>3, <1>4
<1> QED BY <1>5

LEMMA AnswerTypes ==
  ASSUME TypeOK, NEW response \in resp_slot
  PROVE  Answer(response) \in SUBSET Tokens
  BY ResponseTypes DEF TypeOK, Answer

\* The MAC makes no more requests than it may.
LEMMA SendBound ==
  ASSUME IndInv, SyncRequest \/ MacSend
  PROVE  issued \in Nat /\ issued + 1 <= MaxRequests
<1>1. issued \in Nat /\ todo \in Nat /\ issued + todo <= MaxRequests /\ MaxRequests \in Nat
  BY RadioServiceAssumption DEF IndInv, TypeOK, StartUpInv
<1>2. CASE MacSend
  BY <1>1, <1>2 DEF MacSend
<1>3. CASE SyncRequest
  <2>1. Starting /\ answered = 1 .. issued
    BY <1>3 DEF SyncRequest, IndInv, StartUpInv
  <2>2. Cardinality(answered) = issued
    BY <2>1, <1>1, CountUpTo
  <2> QED BY <2>1, <2>2, <1>1, RadioServiceAssumption DEF Starting
<1> QED BY <1>2, <1>3

LEMMA TypeStep == IndInv /\ [Next]_vars => TypeOK'
<1> SUFFICES ASSUME IndInv, [Next]_vars PROVE TypeOK'
  OBVIOUS
<1>0. TypeOK /\ MaxRequests \in Nat /\ Burst \in Nat /\ MaxPackets \in Nat /\ MaxLost \in Nat
  BY RadioServiceAssumption DEF IndInv
<1>lost. lost < MaxLost => lost + 1 \in 0 .. MaxLost
  BY <1>0 DEF TypeOK
<1>1. ASSUME NEW n \in 1 .. Burst, NewWork(n) PROVE TypeOK'
  BY <1>0, <1>1 DEF TypeOK, NewWork, requestVars, responseVars
<1>2. CASE SyncRequest \/ MacSend
  <2>1. issued + 1 \in 0 .. MaxRequests /\ issued + 1 \in Tokens
    BY <1>2, <1>0, SendBound DEF Tokens
  <2>2. todo' \in 0 .. Burst
    BY <1>2, <1>0 DEF SyncRequest, MacSend, TypeOK
  <2> QED BY <1>0, <1>2, <2>1, <2>2 DEF TypeOK, SyncRequest, MacSend, Send, requestVars, responseVars
<1>3. ASSUME NEW response \in resp_slot, MacReceive(response) \/ SyncReceive(response) PROVE TypeOK'
  <2>1. Answer(response) \in SUBSET Tokens
    BY <1>0, AnswerTypes
  <2>2. answered' \in SUBSET Tokens
    BY <2>1, <1>0, <1>3 DEF TypeOK, MacReceive, SyncReceive
  <2>3. mac' \in {"ready", "sending", "waiting", "panicked"}
    BY <1>0, <1>3 DEF TypeOK, MacReceive, SyncReceive
  <2>4. lock_held' \in BOOLEAN
    BY <1>3 DEF MacReceive, SyncReceive, Taken, Unlock
  <2> QED BY <1>0, <1>3, <2>2, <2>3, <2>4 DEF TypeOK, MacReceive, SyncReceive, Taken, requestVars
<1>4. CASE TakeRequest
  BY <1>0, <1>4 DEF TypeOK, TakeRequest, responseVars
<1>5. CASE Register
  <2>1. PICK id \in FreeIds, token \in current :
          /\ responsemap' = {p \in responsemap : p.id # id} \cup {[id |-> id, token |-> token]}
          /\ request_id' = {id}
    BY <1>5 DEF Register
  <2>2. id \in Ids /\ token \in Tokens /\ [id |-> id, token |-> token] \in Parsers
    BY <2>1, <1>0 DEF FreeIds, TypeOK, Parsers
  <2>3. responsemap' \in SUBSET Parsers /\ request_id' \in SUBSET Ids
    BY <2>1, <2>2, <1>0 DEF TypeOK
  <2> QED BY <1>0, <1>5, <2>3 DEF TypeOK, Register, macVars, responseVars
<1>6. CASE Written \/ WriteFails \/ FlushFails
  <2>1. requester = "write" /\ WriteDone
    BY <1>6 DEF Written, WriteFails, FlushFails, WriteDone
  <2>2. Request \in Parsers /\ buffer \in Seq(Parsers) /\ wire_out \in Seq(Parsers)
    BY <2>1, <1>0, WritingIsRegistered DEF IndInv, TypeOK
  <2>3. buffer' \in Seq(Parsers) /\ wire_out' \in Seq(Parsers)
    <3>1. /\ Append(buffer, Request) \in Seq(Parsers) /\ <<Request>> \in Seq(Parsers)
          /\ <<>> \in Seq(Parsers) /\ wire_out \o buffer \in Seq(Parsers)
      BY <2>2
    <3>2. wire_out \o Append(buffer, Request) \in Seq(Parsers)
      BY <3>1, <2>2
    <3> QED BY <1>6, <2>2, <3>1, <3>2 DEF Written, WriteFails, FlushFails
  <2>4. lost' \in 0 .. MaxLost
    BY <1>6, <1>0, <1>lost DEF Written, WriteFails, FlushFails, WriteError, TypeOK
  <2> QED BY <1>0, <2>1, <2>3, <2>4 DEF TypeOK, WriteDone, macVars, responseVars
<1>7. CASE DriedUp
  BY <1>0, <1>7 DEF TypeOK, DriedUp, macVars
<1>8. ASSUME NEW ok \in BOOLEAN, DeviceReplies(ok) PROVE TypeOK'
  <2>1. Head(wire_out) \in Parsers /\ Tail(wire_out) \in Seq(Parsers)
    BY <1>0, <1>8, TailElems DEF TypeOK, DeviceReplies
  <2>2. wire_in' \in Seq(Messages) /\ wire_out' \in Seq(Parsers)
    <3>1. Reply(Head(wire_out), ok) \in Messages
      BY <2>1, MessageTypes, ResponseTypes
    <3> QED BY <3>1, <2>1, <1>0, <1>8 DEF TypeOK, DeviceReplies
  <2>3. lost' \in 0 .. MaxLost
    BY <1>8, <1>0, <1>lost DEF DeviceReplies, TypeOK
  <2> QED BY <1>0, <1>8, <2>2, <2>3 DEF TypeOK, DeviceReplies, macVars, responseVars
<1>9. CASE DeviceIgnores
  <2>1. wire_out' \in Seq(Parsers)
    BY <1>0, <1>9, TailElems DEF TypeOK, DeviceIgnores
  <2> QED BY <1>0, <1>9, <2>1, <1>lost DEF TypeOK, DeviceIgnores, macVars, responseVars
<1>10. CASE DeviceReceives
  <2>1. wire_in' \in Seq(Messages)
    BY <1>0, <1>10, MessageTypes DEF TypeOK, DeviceReceives
  <2>2. packets' \in 0 .. MaxPackets
    BY <1>0, <1>10 DEF TypeOK, DeviceReceives
  <2> QED BY <1>0, <1>10, <2>1, <2>2 DEF TypeOK, DeviceReceives, macVars, requestVars, responseVars
<1>11. CASE ReadPacket \/ ReadJunk
  <2>1. wire_in' \in Seq(Messages)
    <3>1. wire_in # <<>> /\ wire_in' = Tail(wire_in)
      BY <1>11 DEF ReadPacket, ReadJunk, Read
    <3>2. wire_in \in Seq(Messages)
      BY <1>0 DEF TypeOK
    <3> QED BY <3>1, <3>2, TailElems
  <2>2. resp_slot' \in SUBSET Responses
    BY <1>0, <1>11, ResponseTypes DEF TypeOK, ReadPacket, ReadJunk, responseVars
  <2> QED BY <1>0, <1>11, <2>1, <2>2
          DEF TypeOK, ReadPacket, ReadJunk, Read, macVars, requestVars, responseVars
<1>12. CASE SendToNobody
  <2>1. lock_held' \in BOOLEAN
    BY <1>12 DEF SendToNobody, Unlock
  <2> QED BY <1>0, <1>12, <2>1 DEF TypeOK, SendToNobody, macVars, requestVars
<1>13. CASE wire_in # <<>> /\ ReadReply(Head(wire_in))
  <2> DEFINE m == Head(wire_in)
  <2>1. m.type = "Reply" /\ m.to.token \in {0} \cup Tokens /\ m.ok \in BOOLEAN
    BY <1>13, ReplyHasParser DEF ReadReply
  <2>2. wire_in' \in Seq(Messages)
    BY <1>0, <1>13, TailElems DEF TypeOK, ReadReply, Read
  <2>3. PICK parser \in responsemap :
          /\ responsemap' = responsemap \ {parser} /\ resp_slot' = {Reply(parser, m.ok)}
          /\ mistaken' = (IF parser = m.to THEN mistaken
                          ELSE mistaken \cup {[token |-> parser.token, by |-> m.to.token]})
    BY <1>13 DEF ReadReply, ParsersFor
  <2>4. resp_slot' \in SUBSET Responses /\ responsemap' \in SUBSET Parsers
    BY <2>1, <2>3, <1>0, ResponseTypes DEF TypeOK
  <2>6. mistaken' \in SUBSET [token : Tokens, by : {0} \cup Tokens]
    <3>1. parser \in Parsers /\ parser.token \in Tokens
      BY <1>0, ParserTypes DEF TypeOK
    <3> HIDE DEF m
    <3> QED BY <2>1, <2>3, <3>1, <1>0 DEF TypeOK
  <2>5. lock_held' \in BOOLEAN
    BY <1>13 DEF ReadReply
  <2> HIDE DEF m
  <2> QED BY <1>0, <1>13, <2>2, <2>4, <2>5, <2>6
          DEF TypeOK, ReadReply, Read, macVars, requestVars
<1>14. CASE UNCHANGED vars
  BY <1>0, <1>14 DEF TypeOK, vars, macVars, requestVars, responseVars
<1>15. CASE wire_in # <<>> /\ ReadUnknown(Head(wire_in))
  <2>1. wire_in' \in Seq(Messages)
    BY <1>0, <1>15, TailElems DEF TypeOK, ReadUnknown, Read
  <2> QED BY <1>0, <1>15, <2>1
          DEF TypeOK, ReadUnknown, Read, macVars, requestVars, responseVars
<1> QED BY <1>1, <1>2, <1>3, <1>4, <1>5, <1>6, <1>7, <1>8, <1>9, <1>10, <1>11, <1>12, <1>13, <1>14,
           <1>15
    DEF Next

\* The actions of the device and the stuttering steps leave the control state
\* and the places alone, and so does a message the response task drops.
controlVars == <<mac, issued, answered, req_slot, requester, current, request_id, responsemap,
                 responder, resp_slot, lock_held, mistaken>>

LEMMA QuietSteps ==
  /\ \A n \in 1 .. Burst : NewWork(n) => UNCHANGED controlVars
  /\ \A ok \in BOOLEAN : DeviceReplies(ok) => UNCHANGED controlVars
  /\ DeviceIgnores \/ DeviceReceives \/ ReadJunk \/ UNCHANGED vars => UNCHANGED controlVars
  /\ \A m : ReadUnknown(m) => UNCHANGED controlVars
<1>1. \A n \in 1 .. Burst : NewWork(n) => UNCHANGED controlVars
  BY DEF NewWork, controlVars, requestVars, responseVars
<1>2. \A ok \in BOOLEAN : DeviceReplies(ok) => UNCHANGED controlVars
  BY DEF DeviceReplies, controlVars, macVars, responseVars
<1>3. DeviceIgnores => UNCHANGED controlVars
  BY DEF DeviceIgnores, controlVars, macVars, responseVars
<1>4. DeviceReceives => UNCHANGED controlVars
  BY DEF DeviceReceives, controlVars, macVars, requestVars, responseVars
<1>5. ReadJunk => UNCHANGED controlVars
  BY DEF ReadJunk, Read, controlVars, macVars, requestVars, responseVars
<1>6. UNCHANGED vars => UNCHANGED controlVars
  BY DEF vars, controlVars, macVars, requestVars, responseVars
<1>7. \A m : ReadUnknown(m) => UNCHANGED controlVars
  BY DEF ReadUnknown, Read, controlVars, macVars, requestVars, responseVars
<1> QED BY <1>1, <1>2, <1>3, <1>4, <1>5, <1>6, <1>7

\* When the start-up request is answered the request task has registered it.
LEMMA AnsweredMeansRegistered ==
  ASSUME IndInv, mac = "waiting", NEW response \in resp_slot, Answer(response) = {issued}
  PROVE  requester # "lock"
<1>1. issued \in Nat /\ issued >= 1 /\ answered = 1 .. (issued - 1)
  BY DEF IndInv, StartUpInv, TypeOK
<1>2. issued \in Delivering
  BY DEF Answer, Delivering
<1>3. \A x \in 1 .. issued : x \in answered \/ x \in Delivering
  <2>1. \A x \in 1 .. issued : x \in 1 .. (issued - 1) \/ x = issued
    BY <1>1
  <2> QED BY <1>1, <1>2, <2>1
<1>4. CASE requester = "lock"
  <2>1. PICK token \in Tokens : current = {token}
    BY <1>4 DEF IndInv, Control
  <2>2. token \in Working
    BY <1>4, <2>1 DEF Working
  <2> QED BY <2>2, <1>3 DEF IndInv, Places
<1> QED BY <1>4

\* What the request task registers.
LEMMA RegisterStep ==
  ASSUME IndInv, Register
  PROVE  \E parser \in Parsers :
           /\ responsemap' = responsemap \cup {parser}
           /\ \A p \in responsemap : p.id # parser.id /\ p.token # parser.token
           /\ current = {parser.token} /\ current' = current /\ request_id' = {parser.id}
           /\ requester = "lock" /\ requester' = "write"
           /\ Request' = parser /\ mac # "panicked"
<1>1. PICK id \in FreeIds, token \in current :
        /\ responsemap' = {p \in responsemap : p.id # id} \cup {[id |-> id, token |-> token]}
        /\ request_id' = {id}
  BY DEF Register
<1> DEFINE parser == [id |-> id, token |-> token]
<1>2. id \in Ids /\ token \in Tokens /\ parser \in Parsers /\ parser.id = id /\ parser.token = token
  BY <1>1 DEF FreeIds, IndInv, TypeOK, Parsers
<1>3. \A p \in responsemap : p.id # id
  BY <1>1 DEF FreeIds
<1>4. {p \in responsemap : p.id # id} = responsemap
  BY <1>3
<1>5. requester = "lock" /\ requester' = "write" /\ current' = current
  BY DEF Register
<1>6. current = {token}
  BY <1>1, <1>5 DEF IndInv, Control
<1>7. mac # "panicked"
  BY <1>5 DEF IndInv, Control
<1>8. token \in Working
  BY <1>5, <1>6 DEF Working
<1>9. \A p \in responsemap : p.token # token
  BY <1>7, <1>8 DEF IndInv, Places, Registered
<1>10. Request' = parser
  BY <1>1, <1>5, <1>6 DEF Request
<1> HIDE DEF parser
<1> QED BY <1>1, <1>2, <1>3, <1>4, <1>5, <1>6, <1>7, <1>9, <1>10 DEF parser

\* What the response task does with a reply.
LEMMA ReadReplyStep ==
  ASSUME IndInv, wire_in # <<>>, ReadReply(Head(wire_in))
  PROVE  \E parser \in responsemap :
           /\ parser \in Parsers /\ Head(wire_in).type = "Reply"
           /\ responsemap' = responsemap \ {parser}
           /\ \E ok \in BOOLEAN : resp_slot' = {Reply(parser, ok)}
           /\ \/ Head(wire_in).to = parser /\ mistaken' = mistaken
              \/ /\ Head(wire_in).to # parser
                 /\ Head(wire_in).to.token \in {0} \cup Mistaken
                 /\ mistaken' = mistaken \cup {[token |-> parser.token,
                                               by |-> Head(wire_in).to.token]}
           /\ resp_slot = {} /\ responder' = "send"
           /\ wire_in' = Tail(wire_in)
           /\ UNCHANGED <<macVars, requestVars, req_slot>>
<1> DEFINE m == Head(wire_in)
<1>1. m.type = "Reply"
  BY DEF ReadReply
<1>2. /\ m.ok \in BOOLEAN
      /\ \A p \in ParsersFor(m) : p = m.to \/ m.to.token \in {0} \cup Mistaken
  BY <1>1, ReplyHasParser
<1>3. PICK parser \in ParsersFor(m) :
        /\ responsemap' = responsemap \ {parser}
        /\ resp_slot' = {Reply(parser, m.ok)}
        /\ mistaken' = (IF parser = m.to THEN mistaken
                        ELSE mistaken \cup {[token |-> parser.token, by |-> m.to.token]})
  BY DEF ReadReply
<1>4. /\ responder' = "send" /\ responder = "read" /\ wire_in' = Tail(wire_in)
      /\ UNCHANGED <<macVars, requestVars, req_slot>>
  BY DEF ReadReply, Read
<1>5. resp_slot = {}
  BY <1>4 DEF IndInv, Control
<1>6. parser \in responsemap /\ parser \in Parsers
  BY <1>3 DEF ParsersFor, IndInv, TypeOK
<1> HIDE DEF m
<1> QED BY <1>1, <1>2, <1>3, <1>4, <1>5, <1>6 DEF m

LEMMA ControlStep == IndInv /\ [Next]_vars => Control'
<1> SUFFICES ASSUME IndInv, [Next]_vars PROVE Control'
  OBVIOUS
<1>0. Control
  BY DEF IndInv
<1>1. CASE UNCHANGED controlVars
  BY <1>0, <1>1 DEF Control, controlVars
<1>2. CASE SyncRequest \/ MacSend
  BY <1>0, <1>2 DEF Control, SyncRequest, MacSend, Send, requestVars, responseVars
<1>3. ASSUME NEW response \in resp_slot, MacReceive(response) \/ SyncReceive(response) PROVE Control'
  <2>1. mac # "sending" /\ mac' # "sending"
    BY <1>3 DEF MacReceive, SyncReceive
  <2>2. mac' = "panicked" => requester # "lock"
    <3>1. CASE MacReceive(response)
      BY <3>1 DEF MacReceive
    <3>2. CASE SyncReceive(response)
      <4>1. mac = "waiting" /\ (mac' = "panicked" => Answer(response) = {issued})
        BY <3>2 DEF SyncReceive
      <4> QED BY <4>1, AnsweredMeansRegistered
    <3> QED BY <3>1, <3>2, <1>3
  <2>3. Taken
    BY <1>3 DEF MacReceive, SyncReceive
  <2> QED BY <1>0, <2>1, <2>2, <2>3 DEF Control, Taken, Unlock, requestVars
<1>4. CASE TakeRequest
  <2>1. req_slot = {issued} /\ issued \in Tokens
    BY <1>0, <1>4 DEF Control, TakeRequest, IndInv, TypeOK
  <2> QED BY <1>0, <1>4, <2>1 DEF Control, TakeRequest, responseVars
<1>5. CASE Register
  <2>1. PICK parser \in Parsers :
           /\ responsemap' = responsemap \cup {parser}
           /\ current = {parser.token} /\ current' = current /\ request_id' = {parser.id}
           /\ requester' = "write" /\ mac # "panicked"
    BY <1>5, RegisterStep
  <2> QED BY <1>0, <1>5, <2>1 DEF Control, Register, macVars, responseVars
<1>6. CASE Written \/ WriteFails \/ FlushFails
  <2>1. WriteDone
    BY <1>6 DEF Written, WriteFails, FlushFails
  <2> QED BY <1>0, <2>1 DEF Control, WriteDone, macVars, responseVars
<1>7. CASE DriedUp
  BY <1>0, <1>7 DEF Control, DriedUp, macVars
<1>8. CASE ReadPacket
  BY <1>0, <1>8 DEF Control, ReadPacket, Read, macVars, requestVars
<1>9. CASE SendToNobody
  BY <1>0, <1>9 DEF Control, SendToNobody, Unlock, macVars, requestVars
<1>10. CASE wire_in # <<>> /\ ReadReply(Head(wire_in))
  <2>1. PICK parser \in responsemap :
           /\ parser \in Parsers
           /\ \E ok \in BOOLEAN : resp_slot' = {Reply(parser, ok)}
           /\ responder' = "send"
           /\ UNCHANGED <<macVars, requestVars, req_slot>>
    BY <1>10, ReadReplyStep
  <2>2. PICK ok \in BOOLEAN : resp_slot' = {Reply(parser, ok)}
    BY <2>1
  <2>3. Reply(parser, ok).type = "Reply"
    BY <2>1, ResponseTypes
  <2> QED BY <1>0, <2>1, <2>2, <2>3 DEF Control, macVars, requestVars
<1> QED BY <1>1, <1>2, <1>3, <1>4, <1>5, <1>6, <1>7, <1>8, <1>9, <1>10, QuietSteps DEF Next

LEMMA MapStep == IndInv /\ [Next]_vars => MapInv'
<1> SUFFICES ASSUME IndInv, [Next]_vars PROVE MapInv'
  OBVIOUS
<1>0. MapInv
  BY DEF IndInv
<1>1. CASE UNCHANGED responsemap
  BY <1>0, <1>1 DEF MapInv
<1>2. CASE Register
  <2>1. PICK parser \in Parsers :
           /\ responsemap' = responsemap \cup {parser}
           /\ \A p \in responsemap : p.id # parser.id /\ p.token # parser.token
    BY <1>2, RegisterStep
  <2> QED BY <1>0, <2>1 DEF MapInv
<1>3. CASE wire_in # <<>> /\ ReadReply(Head(wire_in))
  <2>1. responsemap' \subseteq responsemap
    BY <1>3, ReadReplyStep
  <2> QED BY <1>0, <2>1 DEF MapInv
<1>4. SyncRequest \/ MacSend => UNCHANGED responsemap
  BY DEF SyncRequest, MacSend, Send
<1>5. \A response \in resp_slot :
        MacReceive(response) \/ SyncReceive(response) => UNCHANGED responsemap
  BY DEF MacReceive, SyncReceive, Taken
<1>6. TakeRequest \/ DriedUp \/ ReadPacket \/ SendToNobody => UNCHANGED responsemap
  BY DEF TakeRequest, DriedUp, ReadPacket, SendToNobody
<1>7. Written \/ WriteFails \/ FlushFails => UNCHANGED responsemap
  BY DEF Written, WriteFails, FlushFails, WriteDone
<1>8. UNCHANGED controlVars => UNCHANGED responsemap
  BY DEF controlVars
<1> QED BY <1>1, <1>2, <1>3, <1>4, <1>5, <1>6, <1>7, <1>8, QuietSteps DEF Next

-----------------------------------------------------------------------------
(* The wire.                                                                *)
wireVars == <<requester, current, request_id, responsemap, buffer, wire_out, wire_in, mistaken>>

LEMMA WireWritten ==
  ASSUME IndInv, Written \/ WriteFails \/ FlushFails
  PROVE  WireInv'
<1>0. WireInv /\ buffer \in Seq(Parsers) /\ wire_out \in Seq(Parsers)
  BY DEF IndInv, TypeOK
<1>1. /\ requester = "write" /\ requester' = "next"
      /\ UNCHANGED <<responsemap, wire_in, mistaken>>
  BY DEF Written, WriteFails, FlushFails, WriteDone
<1>2. Request \in Parsers
  BY <1>1, WritingIsRegistered DEF IndInv
<1>3. Writing = {Request} /\ Writing' = {}
  BY <1>1 DEF Writing
<1>9. Known' = Known
  BY <1>1 DEF Known, Mistaken
<1> DEFINE sent == Append(buffer, Request)
<1>4. /\ sent \in Seq(Parsers) /\ Elems(sent) = Elems(buffer) \cup {Request} /\ NoRepeat(sent)
  BY <1>0, <1>2, <1>3, AppendElems DEF WireInv
<1>5. Elems(<<>>) = {} /\ NoRepeat(<<>>) /\ Elems(<<Request>>) = {Request} /\ NoRepeat(<<Request>>)
  BY EmptyElems DEF Elems, NoRepeat
<1>6. CASE Written
  <2>1. buffer' = <<>> /\ wire_out' = wire_out \o sent
    BY <1>6 DEF Written
  <2> HIDE DEF sent
  <2>2. Elems(wire_out) \cap Elems(sent) = {}
    BY <1>0, <1>3, <1>4 DEF WireInv
  <2>3. Elems(wire_out') = Elems(wire_out) \cup Elems(sent) /\ NoRepeat(wire_out')
    BY <1>0, <1>4, <2>1, <2>2, ConcatElems DEF WireInv
  <2>4. Elems(buffer') = {} /\ NoRepeat(buffer')
    BY <2>1, <1>5
  <2> QED BY <1>0, <1>1, <1>2, <1>3, <1>4, <1>9, <2>3, <2>4 DEF WireInv
<1>7. CASE WriteFails
  <2>1. buffer' = <<Request>> /\ wire_out' = wire_out \o buffer
    BY <1>7 DEF WriteFails
  <2>3. Elems(wire_out') = Elems(wire_out) \cup Elems(buffer) /\ NoRepeat(wire_out')
    BY <1>0, <2>1, ConcatElems DEF WireInv
  <2>4. Elems(buffer') = {Request} /\ NoRepeat(buffer')
    BY <2>1, <1>5
  <2> QED BY <1>0, <1>1, <1>2, <1>3, <1>9, <2>3, <2>4 DEF WireInv
<1>8. CASE FlushFails
  BY <1>0, <1>1, <1>3, <1>8, <1>9 DEF WireInv, FlushFails
<1> QED BY <1>6, <1>7, <1>8

LEMMA WireStep == IndInv /\ [Next]_vars => WireInv'
<1> SUFFICES ASSUME IndInv, [Next]_vars PROVE WireInv'
  OBVIOUS
<1>0. /\ WireInv /\ buffer \in Seq(Parsers) /\ wire_out \in Seq(Parsers)
      /\ wire_in \in Seq(Messages)
  BY DEF IndInv, TypeOK
<1>known. UNCHANGED <<responsemap, mistaken>> => Known' = Known
  BY DEF Known, Mistaken
<1>1. CASE UNCHANGED wireVars
  BY <1>0, <1>1, <1>known DEF WireInv, wireVars, Writing, Request
<1>2. CASE TakeRequest
  <2>1. Writing = {} /\ Writing' = {}
    BY <1>2 DEF TakeRequest, Writing
  <2> QED BY <1>0, <1>2, <1>known, <2>1 DEF WireInv, TakeRequest
<1>3. CASE Register
  <2>1. PICK parser \in Parsers :
           /\ responsemap' = responsemap \cup {parser}
           /\ \A p \in responsemap : p.id # parser.id /\ p.token # parser.token
           /\ requester = "lock" /\ requester' = "write" /\ Request' = parser
           /\ current = {parser.token}
    BY <1>3, RegisterStep
  <2>2. Writing = {} /\ Writing' = {parser}
    BY <2>1 DEF Writing
  <2>3. UNCHANGED <<buffer, wire_out, wire_in, mistaken>>
    BY <1>3 DEF Register
  <2>4. parser \notin Known
    <3>1. parser.token \in Working /\ mac # "panicked" /\ parser.token \in Tokens
      BY <1>3, <2>1, ParserTypes DEF Working, IndInv, Control
    <3>2. parser.token \notin Mistaken
      BY <3>1 DEF IndInv, MistakenInv, Places
    <3>3. parser.token # 0
      BY <3>1, RadioServiceAssumption DEF Tokens
    <3> QED BY <2>1, <3>2, <3>3 DEF Known
  <2>5. Known \subseteq Known' /\ parser \in Known'
    BY <2>1, <2>3, ResponseTypes DEF Known, Mistaken
  <2> QED BY <1>0, <2>2, <2>3, <2>4, <2>5 DEF WireInv
<1>4. CASE Written \/ WriteFails \/ FlushFails
  BY <1>4, WireWritten
<1>5. CASE DriedUp
  <2>1. Writing = {} /\ Writing' = {}
    BY <1>5 DEF DriedUp, Writing
  <2> QED BY <1>0, <1>5, <1>known, <2>1 DEF WireInv, DriedUp
<1>6. ASSUME NEW ok \in BOOLEAN, DeviceReplies(ok) PROVE WireInv'
  <2> DEFINE h == Head(wire_out)
             m == Reply(h, ok)
  <2>1. /\ wire_out # <<>> /\ wire_out' = Tail(wire_out) /\ wire_in' = Append(wire_in, m)
        /\ UNCHANGED <<requester, current, request_id, buffer, responsemap, mistaken>>
    BY <1>6 DEF DeviceReplies
  <2>2. /\ h \in Parsers /\ h \in Elems(wire_out)
        /\ NoRepeat(wire_out') /\ Elems(wire_out') = Elems(wire_out) \ {h}
    BY <1>0, <2>1, TailElems DEF WireInv
  <2>3. m \in Messages /\ m.type = "Reply" /\ m.to = h
    BY <2>2, MessageTypes, ResponseTypes
  <2> HIDE DEF m, h
  <2>4. h \notin AnswersOf(wire_in)
    BY <1>0, <2>2 DEF WireInv
  <2>5. AnswersOf(wire_in') = AnswersOf(wire_in) \cup {h} /\ AnsweredOnce(wire_in')
    BY <1>0, <2>1, <2>3, <2>4, AppendAnswers DEF WireInv
  <2>6. Writing' = Writing
    BY <2>1 DEF Writing, Request
  <2> QED BY <1>0, <1>known, <2>1, <2>2, <2>5, <2>6 DEF WireInv
<1>7. CASE DeviceIgnores
  <2>1. /\ wire_out # <<>> /\ wire_out' = Tail(wire_out)
        /\ UNCHANGED <<requester, current, request_id, buffer, responsemap, wire_in,
                       mistaken>>
    BY <1>7 DEF DeviceIgnores
  <2>2. NoRepeat(wire_out') /\ Elems(wire_out') \subseteq Elems(wire_out)
    BY <1>0, <2>1, TailElems DEF WireInv
  <2>3. Writing' = Writing
    BY <2>1 DEF Writing, Request
  <2> QED BY <1>0, <1>known, <2>1, <2>2, <2>3 DEF WireInv
<1>8. CASE DeviceReceives \/ ReadPacket \/ ReadJunk
  <2>1. UNCHANGED <<requester, current, request_id, buffer, responsemap, wire_out, mistaken>>
    BY <1>8 DEF DeviceReceives, ReadPacket, ReadJunk, Read, requestVars
  <2>2. AnswersOf(wire_in') = AnswersOf(wire_in) /\ AnsweredOnce(wire_in')
    <3>1. CASE DeviceReceives
      <4>1. wire_in' = Append(wire_in, Packet)
        BY <3>1 DEF DeviceReceives
      <4>2. Packet \in Messages /\ Packet.type # "Reply"
        BY MessageTypes
      <4> QED BY <1>0, <4>1, <4>2, AppendAnswers DEF WireInv
    <3>2. CASE ReadPacket \/ ReadJunk
      <4>1. /\ wire_in # <<>> /\ wire_in' = Tail(wire_in)
            /\ Head(wire_in) = Packet \/ Head(wire_in) = Junk
        BY <3>2 DEF ReadPacket, ReadJunk, Read
      <4>2. Head(wire_in).type # "Reply"
        BY <4>1, MessageTypes
      <4> QED BY <1>0, <4>1, <4>2, TailAnswers DEF WireInv
    <3> QED BY <3>1, <3>2, <1>8
  <2>3. Writing' = Writing
    BY <2>1 DEF Writing, Request
  <2> QED BY <1>0, <1>known, <2>1, <2>2, <2>3 DEF WireInv
<1>9. CASE wire_in # <<>> /\ ReadReply(Head(wire_in))
  <2> DEFINE request == Head(wire_in).to
  <2>1. PICK parser \in responsemap :
           /\ Head(wire_in).type = "Reply"
           /\ responsemap' = responsemap \ {parser}
           /\ \/ request = parser /\ mistaken' = mistaken
              \/ mistaken' = mistaken \cup {[token |-> parser.token, by |-> request.token]}
           /\ wire_in' = Tail(wire_in)
           /\ UNCHANGED <<macVars, requestVars, req_slot>>
    BY <1>9, ReadReplyStep
  <2>2. /\ request \in AnswersOf(wire_in) /\ AnsweredOnce(wire_in')
        /\ AnswersOf(wire_in') = AnswersOf(wire_in) \ {request}
    BY <1>0, <1>9, <2>1, TailAnswers DEF WireInv
  <2> HIDE DEF request
  <2>3. Writing' = Writing /\ UNCHANGED <<buffer, wire_out>>
    BY <2>1 DEF Writing, Request, requestVars
  <2>4. \A x \in Known : x # request => x \in Known'
    <3>1. Mistaken \subseteq Mistaken'
      BY <2>1 DEF Mistaken
    <3>2. CASE request = parser
      BY <3>1, <3>2, <2>1 DEF Known
    <3>3. CASE mistaken' = mistaken \cup {[token |-> parser.token, by |-> request.token]}
      <4>1. parser.token \in Mistaken'
        <5> DEFINE new == [token |-> parser.token, by |-> request.token]
        <5>1. new \in mistaken' /\ new.token = parser.token
          BY <3>3
        <5> HIDE DEF new
        <5> QED BY <5>1, Zenon DEF Mistaken
      <4> QED BY <3>1, <4>1, <2>1 DEF Known
    <3> QED BY <2>1, <3>2, <3>3
  <2>5. /\ request \notin Writing /\ request \notin Elems(buffer)
        /\ request \notin Elems(wire_out) /\ request \notin AnswersOf(wire_in')
    BY <1>0, <2>2 DEF WireInv
  <2> QED BY <1>0, <2>2, <2>3, <2>4, <2>5 DEF WireInv
<1>14. CASE wire_in # <<>> /\ ReadUnknown(Head(wire_in))
  <2>1. /\ wire_in' = Tail(wire_in) /\ Head(wire_in).type = "Reply"
        /\ UNCHANGED <<requester, current, request_id, buffer, wire_out, responsemap, mistaken>>
    BY <1>14 DEF ReadUnknown, Read, requestVars
  <2>2. AnsweredOnce(wire_in') /\ AnswersOf(wire_in') \subseteq AnswersOf(wire_in)
    BY <1>0, <1>14, <2>1, TailAnswers DEF WireInv
  <2>3. Writing' = Writing
    BY <2>1 DEF Writing, Request
  <2> QED BY <1>0, <1>known, <2>1, <2>2, <2>3 DEF WireInv
<1>10. \A n \in 1 .. Burst : NewWork(n) => UNCHANGED wireVars
  BY DEF NewWork, wireVars, requestVars
<1>11. SyncRequest \/ MacSend => UNCHANGED wireVars
  BY DEF SyncRequest, MacSend, Send, wireVars, requestVars
<1>12. \A response \in resp_slot :
        MacReceive(response) \/ SyncReceive(response) => UNCHANGED wireVars
  BY DEF MacReceive, SyncReceive, Taken, wireVars, requestVars
<1>13. SendToNobody \/ UNCHANGED vars => UNCHANGED wireVars
  BY DEF SendToNobody, vars, requestVars, wireVars
<1> QED BY <1>1, <1>2, <1>3, <1>4, <1>5, <1>6, <1>7, <1>8, <1>9, <1>10, <1>11, <1>12, <1>13,
           <1>14 DEF Next

-----------------------------------------------------------------------------
(* The places.                                                              *)

\* What the MAC receives is all that is in the response channel.
LEMMA DeliveredIsAnswer ==
  ASSUME Control, NEW response \in resp_slot
  PROVE  Delivering = Answer(response)
<1>1. resp_slot = {response}
  BY DEF Control
<1> QED BY <1>1 DEF Delivering, Answer

LEMMA PlacesStep == IndInv /\ [Next]_vars => Places'
<1> SUFFICES ASSUME IndInv, [Next]_vars PROVE Places'
  OBVIOUS
<1>0. Places /\ Control /\ issued \in Nat
  BY DEF IndInv, TypeOK
<1>1. CASE UNCHANGED controlVars
  BY <1>0, <1>1 DEF Places, controlVars, Registered, Working, Delivering
<1>2. CASE SyncRequest \/ MacSend
  <2>1. /\ mac = "ready" /\ issued' = issued + 1 /\ req_slot' = {issued + 1}
        /\ UNCHANGED <<answered, requester, current, responsemap, resp_slot>>
    BY <1>2 DEF SyncRequest, MacSend, Send, requestVars, responseVars
  <2>2. req_slot = {}
    BY <1>0, <2>1 DEF Control
  <2>3. 1 .. issued' = (1 .. issued) \cup req_slot' /\ (1 .. issued) \cap req_slot' = {}
    BY <1>0, <2>1
  <2>4. Working' = Working /\ Registered' = Registered /\ Delivering' = Delivering
    BY <2>1 DEF Working, Registered, Delivering
  <2> QED BY <1>0, <2>1, <2>2, <2>3, <2>4 DEF Places
<1>3. ASSUME NEW response \in resp_slot, MacReceive(response) \/ SyncReceive(response) PROVE Places'
  <2>1. /\ mac # "panicked" /\ answered' = answered \cup Answer(response) /\ resp_slot' = {}
        /\ UNCHANGED <<issued, req_slot, requester, current, responsemap>>
    BY <1>3 DEF MacReceive, SyncReceive, Taken, requestVars
  <2>2. Delivering = Answer(response)
    BY <1>0, DeliveredIsAnswer
  <2>3. Delivering' = {} /\ Working' = Working /\ Registered' = Registered
    BY <2>1 DEF Working, Registered, Delivering
  <2> QED BY <1>0, <2>1, <2>2, <2>3 DEF Places
<1>4. CASE TakeRequest
  <2>1. /\ mac = "sending" /\ requester = "next" /\ requester' = "lock"
        /\ current' = req_slot /\ req_slot' = {}
        /\ UNCHANGED <<issued, answered, responsemap, resp_slot>>
    BY <1>4, <1>0 DEF TakeRequest, Control, responseVars
  <2>2. Working = {} /\ Working' = req_slot /\ Registered' = Registered /\ Delivering' = Delivering
    BY <2>1 DEF Working, Registered, Delivering
  <2> QED BY <1>0, <2>1, <2>2 DEF Places
<1>5. CASE Register
  <2>1. PICK parser \in Parsers :
           /\ responsemap' = responsemap \cup {parser}
           /\ current = {parser.token} /\ requester = "lock" /\ requester' = "write"
           /\ mac # "panicked"
    BY <1>5, RegisterStep
  <2>2. UNCHANGED <<mac, issued, answered, req_slot, resp_slot>>
    BY <1>5 DEF Register, macVars, responseVars
  <2>3. /\ Working = {parser.token} /\ Working' = {} /\ Delivering' = Delivering
        /\ Registered' = Registered \cup {parser.token}
    BY <2>1, <2>2 DEF Working, Registered, Delivering
  <2> QED BY <1>0, <2>1, <2>2, <2>3 DEF Places
<1>6. CASE Written \/ WriteFails \/ FlushFails
  <2>1. /\ requester = "write" /\ requester' = "next"
        /\ UNCHANGED <<mac, issued, answered, req_slot, resp_slot, responsemap>>
    BY <1>6 DEF Written, WriteFails, FlushFails, WriteDone, macVars, responseVars
  <2>2. Working' = Working /\ Registered' = Registered /\ Delivering' = Delivering
    BY <2>1 DEF Working, Registered, Delivering
  <2> QED BY <1>0, <2>1, <2>2 DEF Places
<1>7. CASE DriedUp \/ SendToNobody
  BY <1>7 DEF DriedUp, SendToNobody, Places, macVars
<1>8. CASE ReadPacket
  <2>1. /\ responder = "read" /\ resp_slot' = {Packet}
        /\ UNCHANGED <<mac, issued, answered, requester, current, req_slot, responsemap>>
    BY <1>8 DEF ReadPacket, Read, macVars, requestVars
  <2>2. Packet.type # "Reply"
    BY MessageTypes
  <2>3. Delivering = {} /\ Delivering' = {}
    BY <1>0, <2>1, <2>2 DEF Control, Delivering
  <2>4. Working' = Working /\ Registered' = Registered
    BY <2>1 DEF Working, Registered
  <2> QED BY <1>0, <2>1, <2>3, <2>4 DEF Places
<1>9. CASE wire_in # <<>> /\ ReadReply(Head(wire_in))
  <2>1. PICK parser \in responsemap :
           /\ parser \in Parsers
           /\ responsemap' = responsemap \ {parser}
           /\ \E ok \in BOOLEAN : resp_slot' = {Reply(parser, ok)}
           /\ resp_slot = {}
           /\ UNCHANGED <<macVars, requestVars, req_slot>>
    BY <1>9, ReadReplyStep
  <2>2. PICK ok \in BOOLEAN : resp_slot' = {Reply(parser, ok)}
    BY <2>1
  <2>3. Reply(parser, ok).type = "Reply" /\ Reply(parser, ok).to = parser
    BY <2>1, ResponseTypes
  <2>4. Delivering = {} /\ Delivering' = {parser.token}
    BY <2>1, <2>2, <2>3 DEF Delivering
  <2>5. Registered = Registered' \cup {parser.token} /\ parser.token \notin Registered'
    BY <2>1 DEF Registered, IndInv, MapInv
  <2>6. /\ UNCHANGED <<mac, issued, answered, requester, current, req_slot>>
        /\ Working' = Working
    BY <2>1 DEF Working, macVars, requestVars
  <2> QED BY <1>0, <2>4, <2>5, <2>6 DEF Places
<1> QED BY <1>1, <1>2, <1>3, <1>4, <1>5, <1>6, <1>7, <1>8, <1>9, QuietSteps DEF Next

LEMMA MistakenStep == IndInv /\ [Next]_vars => MistakenInv'
<1> SUFFICES ASSUME IndInv, [Next]_vars PROVE MistakenInv'
  OBVIOUS
<1>0. MistakenInv /\ Control
  BY DEF IndInv
<1>1. CASE UNCHANGED controlVars
  BY <1>0, <1>1 DEF MistakenInv, controlVars, Mistaken, Delivering
<1>2. CASE SyncRequest \/ MacSend
  <2>1. mac # "panicked" /\ UNCHANGED <<answered, resp_slot, mistaken>>
    BY <1>2 DEF SyncRequest, MacSend, Send, responseVars
  <2> QED BY <1>0, <2>1 DEF MistakenInv, Mistaken, Delivering
<1>3. ASSUME NEW response \in resp_slot, MacReceive(response) \/ SyncReceive(response)
      PROVE  MistakenInv'
  <2>1. /\ mac # "panicked" /\ answered' = answered \cup Answer(response)
        /\ UNCHANGED mistaken
    BY <1>3 DEF MacReceive, SyncReceive, Taken
  <2>2. Delivering = Answer(response)
    BY <1>0, DeliveredIsAnswer
  <2> QED BY <1>0, <2>1, <2>2 DEF MistakenInv, Mistaken
<1>4. CASE TakeRequest \/ Register \/ Written \/ WriteFails \/ FlushFails
  <2>1. UNCHANGED <<answered, resp_slot, mistaken>> /\ (mac = "panicked" => mac' = "panicked")
    BY <1>4, <1>0 DEF TakeRequest, Register, Written, WriteFails, FlushFails, WriteDone, macVars,
                      responseVars, Control
  <2> QED BY <1>0, <2>1 DEF MistakenInv, Mistaken, Delivering
<1>5. CASE DriedUp \/ SendToNobody
  <2>1. mac' = "panicked" /\ UNCHANGED mistaken
    BY <1>5 DEF DriedUp, SendToNobody, macVars
  <2> QED BY <1>0, <2>1 DEF MistakenInv
<1>6. CASE ReadPacket
  <2>1. resp_slot = {} /\ UNCHANGED <<mac, answered, mistaken>>
    BY <1>6, <1>0 DEF ReadPacket, Read, macVars, Control
  <2>2. Delivering = {}
    BY <2>1 DEF Delivering
  <2> QED BY <1>0, <2>1, <2>2 DEF MistakenInv, Mistaken
<1>7. CASE wire_in # <<>> /\ ReadReply(Head(wire_in))
  <2> DEFINE request == Head(wire_in).to
  <2>1. PICK parser \in responsemap :
           /\ parser \in Parsers
           /\ \E ok \in BOOLEAN : resp_slot' = {Reply(parser, ok)}
           /\ resp_slot = {} /\ UNCHANGED macVars
           /\ \/ mistaken' = mistaken
              \/ /\ request.token \in {0} \cup Mistaken
                 /\ mistaken' = mistaken \cup {[token |-> parser.token, by |-> request.token]}
    BY <1>7, ReadReplyStep
  <2> HIDE DEF request
  <2>2. PICK ok \in BOOLEAN : resp_slot' = {Reply(parser, ok)}
    BY <2>1
  <2>3. Reply(parser, ok).type = "Reply" /\ Reply(parser, ok).to = parser
    BY <2>1, ResponseTypes
  <2>4. Delivering = {} /\ Delivering' = {parser.token} /\ UNCHANGED <<mac, answered>>
    BY <2>1, <2>2, <2>3 DEF Delivering, macVars
  <2>5. Mistaken' \subseteq Mistaken \cup {parser.token}
    BY <2>1 DEF Mistaken
  <2>6. mistaken' # {} => \E m \in mistaken' : m.by = 0
    BY <2>1, <1>0 DEF MistakenInv, Mistaken
  <2> QED BY <1>0, <2>4, <2>5, <2>6 DEF MistakenInv
<1> QED BY <1>1, <1>2, <1>3, <1>4, <1>5, <1>6, <1>7, QuietSteps DEF Next

-----------------------------------------------------------------------------
(* The start-up.                                                            *)
startVars == <<mac, todo, issued, answered>>

LEMMA StartUpStep == IndInv /\ [Next]_vars => StartUpInv'
<1> SUFFICES ASSUME IndInv, [Next]_vars PROVE StartUpInv'
  OBVIOUS
<1>0. /\ StartUpInv /\ issued \in Nat /\ todo \in Nat /\ answered \in SUBSET Tokens
      /\ MaxRequests \in Nat /\ StartUp \in Nat
  BY RadioServiceAssumption DEF IndInv, TypeOK
<1>1. CASE UNCHANGED startVars
  BY <1>0, <1>1 DEF StartUpInv, startVars, Starting
<1>2. ASSUME NEW n \in 1 .. Burst, NewWork(n) PROVE StartUpInv'
  BY <1>0, <1>2, RadioServiceAssumption DEF StartUpInv, NewWork, Starting
<1>3. CASE SyncRequest
  <2>1. issued + 1 <= MaxRequests
    BY <1>3, SendBound
  <2>2. /\ mac = "ready" /\ Starting /\ todo' = todo /\ issued' = issued + 1 /\ mac' = "sending"
        /\ answered' = answered
    BY <1>3 DEF SyncRequest, Send
  <2>3. Starting' = Starting
    BY <2>2 DEF Starting
  <2>4. todo = 0 /\ answered = 1 .. issued
    BY <1>0, <2>2 DEF StartUpInv
  <2>5. issued' >= 1 /\ answered' = 1 .. (issued' - 1) /\ issued' + todo' <= MaxRequests
    BY <1>0, <2>1, <2>2, <2>4
  <2> QED BY <2>2, <2>4, <2>5 DEF StartUpInv
<1>4. CASE MacSend
  <2>1. /\ todo > 0 /\ todo' = todo - 1 /\ issued' = issued + 1 /\ mac' = "sending"
        /\ answered' = answered
    BY <1>4 DEF MacSend, Send
  <2>2. ~Starting
    BY <1>0, <2>1 DEF StartUpInv
  <2>3. ~Starting'
    BY <2>1, <2>2 DEF Starting
  <2>4. issued' + todo' <= MaxRequests
    BY <1>0, <2>1 DEF StartUpInv
  <2> QED BY <2>1, <2>3, <2>4 DEF StartUpInv
<1>5. ASSUME NEW response \in resp_slot, MacReceive(response) PROVE StartUpInv'
  <2>1. /\ mac = "ready" /\ ~Starting /\ answered' = answered \cup Answer(response)
        /\ UNCHANGED <<mac, todo, issued>>
    BY <1>5 DEF MacReceive, Taken
  <2>2. Answer(response) \in SUBSET Tokens
    BY AnswerTypes DEF IndInv
  <2>3. answered \subseteq answered' /\ answered' \in SUBSET Tokens
    BY <1>0, <2>1, <2>2
  <2>4. Cardinality(answered) <= Cardinality(answered')
    BY <2>3, FiniteTokens, FS_Subset
  <2>5. Cardinality(answered) \in Nat /\ Cardinality(answered') \in Nat
    BY <1>0, <2>3, FiniteTokens
  <2>6. ~Starting'
    BY <1>0, <2>1, <2>4, <2>5 DEF Starting
  <2> QED BY <1>0, <2>1, <2>6 DEF StartUpInv
<1>6. ASSUME NEW response \in resp_slot, SyncReceive(response) PROVE StartUpInv'
  <2>1. /\ mac = "waiting" /\ answered' = answered \cup Answer(response)
        /\ UNCHANGED <<todo, issued>>
    BY <1>6 DEF SyncReceive, Taken
  <2>2. Starting /\ todo = 0 /\ issued >= 1 /\ answered = 1 .. (issued - 1)
    BY <1>0, <2>1 DEF StartUpInv
  <2>3. CASE Answer(response) = {}
    <3>1. mac' = "waiting"
      BY <1>6, <2>3 DEF SyncReceive
    <3>2. answered' = answered
      BY <2>1, <2>3
    <3> QED BY <1>0, <2>1, <2>2, <3>1, <3>2 DEF StartUpInv, Starting
  <2>4. CASE Answer(response) = {issued}
    <3>1. mac' \in {"ready", "panicked"}
      BY <1>6, <2>4 DEF SyncReceive
    <3>2. answered' = 1 .. issued
      BY <1>0, <2>1, <2>2, <2>4
    <3> QED BY <1>0, <2>1, <2>2, <3>1, <3>2 DEF StartUpInv
  <2> QED BY <2>1, <2>3, <2>4, StartUpAnswers
<1>7. CASE TakeRequest
  <2>1. /\ mac = "sending" /\ mac' = (IF Starting THEN "waiting" ELSE "ready")
        /\ UNCHANGED <<todo, issued, answered>>
    BY <1>7 DEF TakeRequest, IndInv, Control
  <2>2. Starting' = Starting
    BY <2>1 DEF Starting
  <2> QED BY <1>0, <2>1, <2>2 DEF StartUpInv
<1>8. Register \/ DriedUp \/ DeviceIgnores \/ DeviceReceives => UNCHANGED startVars
  BY DEF Register, DriedUp, DeviceIgnores, DeviceReceives, macVars, startVars
<1>9. Written \/ WriteFails \/ FlushFails => UNCHANGED startVars
  BY DEF Written, WriteFails, FlushFails, WriteDone, macVars, startVars
<1>10. \A ok \in BOOLEAN : DeviceReplies(ok) => UNCHANGED startVars
  BY DEF DeviceReplies, macVars, startVars
<1>11. ReadPacket \/ ReadJunk \/ SendToNobody \/ ReadReply(Head(wire_in))
         \/ ReadUnknown(Head(wire_in)) => UNCHANGED startVars
  BY DEF ReadPacket, ReadJunk, SendToNobody, ReadReply, ReadUnknown, Read, macVars, startVars
<1>12. UNCHANGED vars => UNCHANGED startVars
  BY DEF vars, macVars, startVars
<1> QED BY <1>1, <1>2, <1>3, <1>4, <1>5, <1>6, <1>7, <1>8, <1>9, <1>10, <1>11, <1>12 DEF Next

-----------------------------------------------------------------------------
(* The theorems.                                                            *)
LEMMA Invariance == Spec => []IndInv
<1>1. IndInv /\ [Next]_vars => IndInv'
  BY TypeStep, ControlStep, MapStep, WireStep, PlacesStep, MistakenStep, StartUpStep DEF IndInv
<1> QED BY InitInv, <1>1, PTL DEF Spec

\* The variables of the radio service keep their types: the MAC never makes
\* more requests than it has tokens for, and what the tasks put in the map, on
\* the wire and in the channels is a parser or a message (radio/mod.rs).
THEOREM TypeCorrect == Spec => []TypeOK
<1>1. IndInv => TypeOK
  BY DEF IndInv
<1> QED BY Invariance, <1>1, PTL

\* Whatever is on its way to the device or back is in the map under an id of
\* its own, or was already given another's reply; and radio_response_task takes
\* a reply for another's only after that of an earlier process has met a new id:
\* for any set of ids, and any number of requests, packets and losses.
THEOREM RepliesAreMatched == Spec => []ReplyFindsItsParser
<1>1. OnTheWire = Elems(wire_out) \cup Elems(buffer) \cup AnswersOf(wire_in)
  <2>1. {m.to : m \in {wire_in[i] : i \in {j \in 1 .. Len(wire_in) : wire_in[j].type = "Reply"}}}
          = AnswersOf(wire_in)
    BY DEF AnswersOf
  <2> QED BY <2>1 DEF OnTheWire, Elems
<1>2. IndInv => ReplyFindsItsParser
  BY <1>1 DEF IndInv, WireInv, MapInv, MistakenInv, Known, Mistaken, ReplyFindsItsParser
<1> QED BY Invariance, <1>2, PTL

\* Each request is counted once.
LEMMA PlacesCounted ==
  ASSUME IndInv, mac # "panicked"
  PROVE  /\ issued = Cardinality(req_slot) + Cardinality(Working) + Cardinality(Registered)
                       + Cardinality(Delivering) + Cardinality(answered)
         /\ {Cardinality(req_slot), Cardinality(Working), Cardinality(Registered),
             Cardinality(Delivering), Cardinality(answered)} \subseteq Nat
<1>1. /\ issued \in Nat /\ req_slot \in SUBSET Tokens /\ Working \in SUBSET Tokens
      /\ answered \in SUBSET Tokens
  BY DEF IndInv, TypeOK, Working
<1>2. Registered \in SUBSET Tokens /\ Delivering \in SUBSET Tokens
  <2>1. Registered \in SUBSET Tokens
    BY ParserTypes DEF IndInv, TypeOK, Registered
  <2>2. Delivering \in SUBSET Tokens
    BY ResponseTypes DEF IndInv, TypeOK, Delivering
  <2> QED BY <2>1, <2>2
<1> DEFINE A == req_slot \cup Working
           B == A \cup Registered
           C == B \cup Delivering
           D == C \cup answered
<1>3. /\ IsFiniteSet(req_slot) /\ IsFiniteSet(Working) /\ IsFiniteSet(Registered)
      /\ IsFiniteSet(Delivering) /\ IsFiniteSet(answered)
  BY <1>1, <1>2, FiniteTokens
<1>4. /\ req_slot \cap Working = {} /\ A \cap Registered = {} /\ B \cap Delivering = {}
      /\ C \cap answered = {} /\ D = 1 .. issued
  BY DEF IndInv, Places
<1>5. IsFiniteSet(A) /\ Cardinality(A) = Cardinality(req_slot) + Cardinality(Working)
  BY <1>3, <1>4, CountDisjoint
<1>6. IsFiniteSet(B) /\ Cardinality(B) = Cardinality(A) + Cardinality(Registered)
  BY <1>3, <1>4, <1>5, CountDisjoint
<1>7. IsFiniteSet(C) /\ Cardinality(C) = Cardinality(B) + Cardinality(Delivering)
  BY <1>3, <1>4, <1>6, CountDisjoint
<1>8. Cardinality(D) = Cardinality(C) + Cardinality(answered)
  BY <1>3, <1>4, <1>7, CountDisjoint
<1>9. Cardinality(D) = issued
  BY <1>1, <1>4, CountUpTo
<1>10. {Cardinality(req_slot), Cardinality(Working), Cardinality(Registered),
        Cardinality(Delivering), Cardinality(answered)} \subseteq Nat
  BY <1>1, <1>2, FiniteTokens
<1> HIDE DEF A, B, C, D
<1> QED BY <1>5, <1>6, <1>7, <1>8, <1>9, <1>10

\* Every request the MAC has made is in exactly one place between its send and
\* its answer: none disappears in radio_request_task or radio_response_task, and
\* none is answered twice.
THEOREM RequestsAreConserved == Spec => []EachRequestInOnePlace
<1>2. IndInv => EachRequestInOnePlace
  BY PlacesCounted DEF IndInv, Places, EachRequestInOnePlace, Registered, Working, Delivering
<1> QED BY Invariance, <1>2, PTL

\* While the start-up lasts, the MAC, the request task and the response task do
\* not wait for each other in a circle: SyncRadio's one request at a time leaves
\* nobody waiting for the map while the MAC is sending.  After the start-up the
\* circle can close, which is what the run on NoWaitCycle finds.
THEOREM StartUpHasNoCycle == Spec => [](Starting => NoWaitCycle)
<1>1. ASSUME IndInv, Starting, mac = "sending", requester = "lock" PROVE FALSE
  <2>1. /\ issued \in Nat /\ issued >= 1 /\ answered = 1 .. (issued - 1)
        /\ req_slot = {issued}
    BY <1>1 DEF IndInv, TypeOK, StartUpInv, Control
  <2>2. PICK token \in Tokens : current = {token}
    BY <1>1 DEF IndInv, Control
  <2>3. token \in 1 .. issued /\ token \notin req_slot /\ token \notin answered
    BY <1>1, <2>2 DEF IndInv, Places, Working
  <2> QED BY <2>1, <2>3
<1>2. IndInv => (Starting => NoWaitCycle)
  BY <1>1 DEF NoWaitCycle
<1> QED BY Invariance, <1>2, PTL

\* The circle closes only over a backlog: besides the request the MAC is sending, one
\* waits for the map and another's answer is being delivered, so that at least three
\* requests are unanswered.
THEOREM CycleNeedsBacklog == Spec => [](~NoWaitCycle => issued >= Cardinality(answered) + 3)
<1>1. ASSUME IndInv, ~NoWaitCycle PROVE issued >= Cardinality(answered) + 3
  <2>1. mac = "sending" /\ requester = "lock" /\ lock_held
    BY <1>1 DEF NoWaitCycle
  <2>2. req_slot = {issued} /\ \E token \in Tokens : Working = {token}
    BY <1>1, <2>1 DEF IndInv, Control, Working
  <2>3. PICK response \in resp_slot : response.type = "Reply"
    BY <1>1, <2>1 DEF IndInv, Control
  <2>4. response.to.token \in Delivering /\ Delivering \in SUBSET Tokens
    BY <1>1, <2>3, ResponseTypes DEF IndInv, TypeOK, Delivering
  <2>5. Cardinality(req_slot) = 1 /\ Cardinality(Working) = 1
    BY <2>2, FS_Singleton
  <2>6. Cardinality(Delivering) # 0
    BY <2>4, FiniteTokens, FS_EmptySet
  <2> QED BY <1>1, <2>1, <2>5, <2>6, PlacesCounted DEF IndInv, TypeOK
<1>2. IndInv => (~NoWaitCycle => issued >= Cardinality(answered) + 3)
  BY <1>1
<1> QED BY Invariance, <1>2, PTL
=============================================================================
