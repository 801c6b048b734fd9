-------------------------- MODULE DataChannelProofs --------------------------
(***************************************************************************)
(* Theorems about CandidateQueue, for any callers and calls, and about     *)
(* DataChannel, for any number of messages.                                *)
(***************************************************************************)
EXTENDS DataChannel, FiniteSetTheorems, TLAPS

-----------------------------------------------------------------------------
(***************************************************************************)
(* The queue of candidates.                                                *)
(***************************************************************************)
Described ==
  /\ \A g \in Caller : step[g] \in {"adding", "flushing", "taken"} => described
  /\ NoneBeforeDescription

In(s, c) == \E i \in 1..Len(s) : s[i] = c
Distinct(s) == \A i, j \in 1..Len(s) : s[i] = s[j] => i = j

\* The candidate of c's call was handed in: AddICECandidate has returned.
HandedIn(c) == c[2] \in 1..(call[c[1]] - 1) /\ Script[c[1]][c[2]] = "add"

\* A candidate is found where it is found once, and only if it was handed in.
OnePlace ==
  /\ Distinct(queue) /\ Distinct(added) /\ \A g \in Caller : Distinct(batch[g])
  /\ \A c \in Candidate :
       /\ ~(In(queue, c) /\ In(added, c))
       /\ \A g \in Caller : ~(In(batch[g], c) /\ (In(queue, c) \/ In(added, c)))
       /\ \A g, h \in Caller : In(batch[g], c) /\ In(batch[h], c) => g = h
       /\ HandedIn(c) <=> In(queue, c) \/ In(added, c) \/ \E g \in Caller : In(batch[g], c)

\* The calls go through the script.
CallInv ==
  \A g \in Caller : /\ step[g] \in {"queueing", "adding"} => Calls(g, "add")
                    /\ step[g] \in {"flushing", "taken"} => Calls(g, "describe")

QueueInv == TypeOK /\ Described /\ CallInv /\ OnePlace

LEMMA QueueInitInv == Init => QueueInv
<1> SUFFICES ASSUME Init PROVE QueueInv
  OBVIOUS
<1> USE DEF Init
<1>1. TypeOK
  <2>1. <<>> \in Seq(Candidate)
    OBVIOUS
  <2> QED BY <2>1 DEF TypeOK
<1>2. Described /\ CallInv
  BY DEF Described, NoneBeforeDescription, CallInv
<1>3. OnePlace
  BY DEF OnePlace, In, Distinct, HandedIn, Candidate
<1> QED BY <1>1, <1>2, <1>3 DEF QueueInv

\* What Append and Tail do to In and Distinct.
LEMMA InAppend ==
  ASSUME NEW S, NEW s \in Seq(S), NEW d \in S
  PROVE  /\ \A c : In(Append(s, d), c) <=> In(s, c) \/ c = d
         /\ Distinct(s) /\ ~In(s, d) => Distinct(Append(s, d))
<1>1. /\ Len(Append(s, d)) = Len(s) + 1 /\ Len(s) \in Nat
      /\ \A i \in 1..Len(s) : Append(s, d)[i] = s[i]
      /\ Append(s, d)[Len(s) + 1] = d
  OBVIOUS
<1> QED BY <1>1 DEF In, Distinct

LEMMA InTail ==
  ASSUME NEW S, NEW s \in Seq(S), s # <<>>
  PROVE  /\ \A c : In(s, c) <=> In(Tail(s), c) \/ c = Head(s)
         /\ Distinct(s) => Distinct(Tail(s)) /\ ~In(Tail(s), Head(s))
<1>1. /\ Len(s) \in Nat \ {0} /\ Len(Tail(s)) = Len(s) - 1 /\ Head(s) = s[1]
      /\ \A i \in 1..Len(Tail(s)) : Tail(s)[i] = s[i + 1]
  OBVIOUS
<1>2. ASSUME NEW c, In(s, c) PROVE In(Tail(s), c) \/ c = Head(s)
  <2>1. PICK i \in 1..Len(s) : s[i] = c
    BY <1>2 DEF In
  <2>2. CASE i = 1
    BY <2>1, <2>2, <1>1
  <2>3. CASE i # 1
    <3>1. i - 1 \in 1..Len(Tail(s)) /\ Tail(s)[i - 1] = c
      BY <2>1, <2>3, <1>1
    <3> QED BY <3>1 DEF In
  <2> QED BY <2>2, <2>3
<1>3. ASSUME NEW c, In(Tail(s), c) \/ c = Head(s) PROVE In(s, c)
  BY <1>1, <1>3 DEF In
<1>4. ASSUME Distinct(s) PROVE Distinct(Tail(s)) /\ ~In(Tail(s), Head(s))
  BY <1>1, <1>4 DEF In, Distinct
<1> QED BY <1>2, <1>3, <1>4
\* The calls are those of the script, before and after a step.
LEMMA QueueControl ==
  ASSUME QueueInv, Next
  PROVE  (TypeOK /\ Described /\ CallInv)'
<1> USE DEF QueueInv, GoTo, Return
<1> PICK g \in Caller : \/ AddDecides(g) \/ AddQueues(g) \/ AddAdds(g)
                        \/ Describe(g) \/ TakeQueue(g) \/ AddPending(g) \/ Flushed(g)
  BY DEF Next
<1>c. call[g] \in Nat /\ <<g, call[g]>> \in Candidate
  BY DEF TypeOK, Candidate
<1>1. CASE AddDecides(g)
  BY <1>1 DEF AddDecides, TypeOK, Described, NoneBeforeDescription, CallInv, Calls
<1>2. CASE AddQueues(g)
  <2>1. queue' \in Seq(Candidate) /\ UNCHANGED <<described, added, batch>>
    BY <1>2, <1>c DEF AddQueues, TypeOK
  <2> QED BY <1>2, <2>1 DEF AddQueues, TypeOK, Described, NoneBeforeDescription, CallInv, Calls
<1>3. CASE AddAdds(g)
  <2>1. added' \in Seq(Candidate) /\ UNCHANGED <<described, queue, batch>>
    BY <1>3, <1>c DEF AddAdds, TypeOK
  <2> QED BY <1>3, <2>1 DEF AddAdds, TypeOK, Described, NoneBeforeDescription, CallInv, Calls
<1>4. CASE Describe(g)
  BY <1>4 DEF Describe, TypeOK, Described, NoneBeforeDescription, CallInv, Calls
<1>5. CASE TakeQueue(g)
  <2>1. TypeOK'
    BY <1>5 DEF TakeQueue, TypeOK
  <2> QED BY <1>5, <2>1 DEF TakeQueue, TypeOK, Described, NoneBeforeDescription, CallInv, Calls
<1>6. CASE AddPending(g)
  <2>1. batch[g] \in Seq(Candidate) /\ batch[g] # <<>> /\ step[g] = "taken"
    BY <1>6 DEF AddPending, TypeOK
  <2>2. added' \in Seq(Candidate) /\ batch' \in [Caller -> Seq(Candidate)]
    BY <1>6, <2>1 DEF AddPending, TypeOK
  <2> QED BY <1>6, <2>1, <2>2
          DEF AddPending, TypeOK, Described, NoneBeforeDescription, CallInv, Calls
<1>7. CASE Flushed(g)
  BY <1>7 DEF Flushed, TypeOK, Described, NoneBeforeDescription, CallInv, Calls
<1> QED BY <1>1, <1>2, <1>3, <1>4, <1>5, <1>6, <1>7

\* A call that returns hands its candidate in, if it was one to add.
LEMMA Returns ==
  ASSUME QueueInv, NEW g \in Caller, Return(g)
  PROVE  /\ Calls(g, "add") =>
              \A c \in Candidate : HandedIn(c)' <=> HandedIn(c) \/ c = <<g, call[g]>>
         /\ Calls(g, "describe") => \A c \in Candidate : HandedIn(c)' <=> HandedIn(c)
         /\ ~HandedIn(<<g, call[g]>>)
<1>1. call \in [Caller -> Nat] /\ call' = [call EXCEPT ![g] = @ + 1]
  BY DEF QueueInv, TypeOK, Return
<1>2. ASSUME NEW c \in Candidate
      PROVE  c[1] \in Caller /\ c[2] \in Nat /\ c = <<c[1], c[2]>>
  BY DEF Candidate
<1>3. ASSUME NEW c \in Candidate, Calls(g, "add") PROVE HandedIn(c)' <=> HandedIn(c) \/ c = <<g, call[g]>>
  <2>1. call[g] \in Nat \ {0} /\ Script[g][call[g]] = "add"
    <3>1. Script[g] \in Seq({"add", "describe"})
      BY ScriptAssumption
    <3> QED BY <1>1, <1>3, <3>1 DEF Calls
  <2>2. CASE c[1] = g
    BY <1>1, <1>2, <2>1, <2>2 DEF HandedIn
  <2>3. CASE c[1] # g
    BY <1>1, <1>2, <2>3 DEF HandedIn
  <2> QED BY <2>2, <2>3
<1>4. ASSUME NEW c \in Candidate, Calls(g, "describe") PROVE HandedIn(c)' <=> HandedIn(c)
  BY <1>1, <1>2, <1>4 DEF HandedIn, Calls
<1>5. ~HandedIn(<<g, call[g]>>)
  BY <1>1 DEF HandedIn
<1> QED BY <1>3, <1>4, <1>5

LEMMA QueueStepInv ==
  ASSUME QueueInv, Next
  PROVE  QueueInv'
<1> PICK g \in Caller : \/ AddDecides(g) \/ AddQueues(g) \/ AddAdds(g)
                        \/ Describe(g) \/ TakeQueue(g) \/ AddPending(g) \/ Flushed(g)
  BY DEF Next
<1> DEFINE d == <<g, call[g]>>
<1>c. /\ call \in [Caller -> Nat] /\ d \in Candidate
      /\ queue \in Seq(Candidate) /\ added \in Seq(Candidate)
      /\ batch \in [Caller -> Seq(Candidate)] /\ batch[g] \in Seq(Candidate)
  BY DEF QueueInv, TypeOK, Candidate
<1>1. CASE AddDecides(g) \/ Describe(g)
  <2>1. UNCHANGED <<queue, added, batch, call>>
    BY <1>1 DEF AddDecides, Describe, GoTo
  <2>2. OnePlace'
    BY <2>1 DEF QueueInv, OnePlace, In, Distinct, HandedIn
  <2> QED BY <2>2, QueueControl DEF QueueInv
<1>2. CASE AddQueues(g)
  <2>1. /\ queue' = Append(queue, d) /\ UNCHANGED <<added, batch>>
        /\ Calls(g, "add") /\ Return(g)
    BY <1>2 DEF AddQueues, QueueInv, CallInv
  <2>2. /\ \A c \in Candidate : HandedIn(c)' <=> HandedIn(c) \/ c = d
        /\ ~HandedIn(d)
    BY <2>1, Returns
  <2>3. /\ \A c : In(queue', c) <=> In(queue, c) \/ c = d
        /\ Distinct(queue) /\ ~In(queue, d) => Distinct(queue')
    <3>1. /\ \A c : In(Append(queue, d), c) <=> In(queue, c) \/ c = d
          /\ Distinct(queue) /\ ~In(queue, d) => Distinct(Append(queue, d))
      BY <1>c, InAppend
    <3> QED BY <2>1, <3>1
  <2>4. OnePlace'
    BY <2>1, <2>2, <2>3, <1>c DEF QueueInv, OnePlace
  <2> QED BY <2>4, QueueControl DEF QueueInv
<1>3. CASE AddAdds(g)
  <2>1. /\ added' = Append(added, d) /\ UNCHANGED <<queue, batch>>
        /\ Calls(g, "add") /\ Return(g)
    BY <1>3 DEF AddAdds, QueueInv, CallInv
  <2>2. /\ \A c \in Candidate : HandedIn(c)' <=> HandedIn(c) \/ c = d
        /\ ~HandedIn(d)
    BY <2>1, Returns
  <2>3. /\ \A c : In(added', c) <=> In(added, c) \/ c = d
        /\ Distinct(added) /\ ~In(added, d) => Distinct(added')
    <3>1. /\ \A c : In(Append(added, d), c) <=> In(added, c) \/ c = d
          /\ Distinct(added) /\ ~In(added, d) => Distinct(Append(added, d))
      BY <1>c, InAppend
    <3> QED BY <2>1, <3>1
  <2>4. OnePlace'
    BY <2>1, <2>2, <2>3, <1>c DEF QueueInv, OnePlace
  <2> QED BY <2>4, QueueControl DEF QueueInv
<1>4. CASE TakeQueue(g)
  <2>1. /\ queue' = <<>> /\ batch' = [batch EXCEPT ![g] = queue]
        /\ UNCHANGED <<added, call>> /\ batch[g] = <<>>
    BY <1>4 DEF TakeQueue, GoTo, QueueInv, TypeOK
  <2>2. /\ \A c : ~In(queue', c) /\ ~In(batch[g], c) /\ (In(batch'[g], c) <=> In(queue, c))
        /\ Distinct(queue') /\ (Distinct(batch'[g]) <=> Distinct(queue))
    BY <2>1, <1>c DEF In, Distinct
  <2>3. \A h \in Caller \ {g} : batch'[h] = batch[h]
    BY <2>1, <1>c
  <2>4. \A c : HandedIn(c)' <=> HandedIn(c)
    BY <2>1 DEF HandedIn
  <2>5. OnePlace'
    BY <2>1, <2>2, <2>3, <2>4 DEF QueueInv, OnePlace
  <2> QED BY <2>5, QueueControl DEF QueueInv
<1>5. CASE AddPending(g)
  <2> DEFINE e == Head(batch[g])
  <2>1. /\ added' = Append(added, e) /\ batch' = [batch EXCEPT ![g] = Tail(batch[g])]
        /\ UNCHANGED <<queue, call>> /\ batch[g] # <<>>
    BY <1>5 DEF AddPending
  <2>2. e \in Candidate /\ batch'[g] = Tail(batch[g])
    BY <2>1, <1>c
  <2>3. /\ \A c : In(added', c) <=> In(added, c) \/ c = e
        /\ Distinct(added) /\ ~In(added, e) => Distinct(added')
    <3>1. /\ \A c : In(Append(added, e), c) <=> In(added, c) \/ c = e
          /\ Distinct(added) /\ ~In(added, e) => Distinct(Append(added, e))
      BY <2>2, <1>c, InAppend
    <3> QED BY <2>1, <3>1
  <2>4. /\ \A c : In(batch[g], c) <=> In(batch'[g], c) \/ c = e
        /\ Distinct(batch'[g]) /\ ~In(batch'[g], e)
    <3>1. Distinct(batch[g])
      BY DEF QueueInv, OnePlace
    <3>2. /\ \A c : In(batch[g], c) <=> In(Tail(batch[g]), c) \/ c = Head(batch[g])
          /\ Distinct(batch[g]) => Distinct(Tail(batch[g])) /\ ~In(Tail(batch[g]), Head(batch[g]))
      BY <2>1, <1>c, InTail
    <3> QED BY <2>2, <3>1, <3>2
  <2>5. \A h \in Caller \ {g} : batch'[h] = batch[h]
    BY <2>1, <1>c
  <2>6. \A c : HandedIn(c)' <=> HandedIn(c)
    BY <2>1 DEF HandedIn
  <2>7. OnePlace'
    BY <2>1, <2>2, <2>3, <2>4, <2>5, <2>6 DEF QueueInv, OnePlace
  <2> QED BY <2>7, QueueControl DEF QueueInv
<1>6. CASE Flushed(g)
  <2>1. UNCHANGED <<queue, added, batch>> /\ Calls(g, "describe") /\ Return(g)
    BY <1>6 DEF Flushed, QueueInv, CallInv
  <2>2. \A c \in Candidate : HandedIn(c)' <=> HandedIn(c)
    BY <2>1, Returns
  <2>3. OnePlace'
    BY <2>1, <2>2 DEF QueueInv, OnePlace, In, Distinct
  <2> QED BY <2>3, QueueControl DEF QueueInv
<1> QED BY <1>1, <1>2, <1>3, <1>4, <1>5, <1>6
LEMMA QueueInvariance == Spec => []QueueInv
<1>1. QueueInv /\ [Next]_vars => QueueInv'
  <2> SUFFICES ASSUME QueueInv, [Next]_vars PROVE QueueInv'
    OBVIOUS
  <2>1. CASE Next
    BY <2>1, QueueStepInv
  <2>2. CASE UNCHANGED vars
    BY <2>2 DEF vars, QueueInv, TypeOK, Described, NoneBeforeDescription, CallInv, Calls, OnePlace,
                In, Distinct, HandedIn
  <2> QED BY <2>1, <2>2
<1> QED BY <1>1, QueueInitInv, PTL DEF Spec

\* Distinct entries: a candidate is at one index, or at none.
LEMMA Indices ==
  ASSUME NEW s, Distinct(s), DOMAIN s = 1..Len(s), NEW c
  PROVE  Cardinality({i \in DOMAIN s : s[i] = c}) = IF In(s, c) THEN 1 ELSE 0
<1>1. CASE In(s, c)
  <2>1. PICK i \in 1..Len(s) : s[i] = c
    BY <1>1 DEF In
  <2>2. {j \in DOMAIN s : s[j] = c} = {i}
    BY <2>1 DEF Distinct
  <2> QED BY <1>1, <2>2, FS_Singleton
<1>2. CASE ~In(s, c)
  <2>1. {j \in DOMAIN s : s[j] = c} = {}
    BY <1>2 DEF In
  <2> QED BY <1>2, <2>1, FS_EmptySet
<1> QED BY <1>1, <1>2

\* pion gets no candidate before it has a remote description.
THEOREM CandidatesWait == Spec => []NoneBeforeDescription
<1>1. QueueInv => NoneBeforeDescription BY DEF QueueInv, Described
<1> QED BY <1>1, QueueInvariance, PTL

\* However many goroutines add candidates and set descriptions, none is lost and
\* none is added twice.
THEOREM CandidatesAreKept == Spec => []NoneLostOrDoubled
<1>1. QueueInv => NoneLostOrDoubled
  <2> SUFFICES ASSUME QueueInv, NEW h \in Caller, NEW n \in 1..(call[h] - 1),
                      Script[h][n] = "add"
               PROVE  Places(<<h, n>>) = 1
    BY DEF NoneLostOrDoubled
  <2> DEFINE c == <<h, n>>
             Flushers == {g \in Caller : \E i \in DOMAIN batch[g] : batch[g][i] = c}
  <2>1. c \in Candidate /\ HandedIn(c)
    BY DEF Candidate, HandedIn, QueueInv, TypeOK
  <2>2. DOMAIN queue = 1..Len(queue) /\ DOMAIN added = 1..Len(added)
        /\ \A g \in Caller : DOMAIN batch[g] = 1..Len(batch[g])
    BY DEF QueueInv, TypeOK
  <2>3. /\ Cardinality({i \in DOMAIN queue : queue[i] = c}) = IF In(queue, c) THEN 1 ELSE 0
        /\ Cardinality({i \in DOMAIN added : added[i] = c}) = IF In(added, c) THEN 1 ELSE 0
    <3>1. Distinct(queue) /\ Distinct(added)
      BY DEF QueueInv, OnePlace
    <3>2. Cardinality({i \in DOMAIN queue : queue[i] = c}) = IF In(queue, c) THEN 1 ELSE 0
      BY <2>2, <3>1, Indices
    <3>3. Cardinality({i \in DOMAIN added : added[i] = c}) = IF In(added, c) THEN 1 ELSE 0
      BY <2>2, <3>1, Indices
    <3> QED BY <3>2, <3>3
  <2>4. Flushers = {g \in Caller : In(batch[g], c)}
    BY <2>2 DEF In
  <2>5. CASE \E g \in Caller : In(batch[g], c)
    <3>1. PICK g \in Caller : In(batch[g], c)
      BY <2>5
    <3>2. Flushers = {g} /\ ~In(queue, c) /\ ~In(added, c)
      BY <2>1, <2>4, <3>1 DEF QueueInv, OnePlace
    <3>3. Cardinality(Flushers) = 1
      BY <3>2, FS_Singleton
    <3> QED BY <2>3, <3>2, <3>3 DEF Places
  <2>6. CASE ~ \E g \in Caller : In(batch[g], c)
    <3>1. Cardinality(Flushers) = 0
      BY <2>4, <2>6, FS_EmptySet
    <3>2. In(queue, c) <=> ~In(added, c)
      BY <2>1, <2>6 DEF QueueInv, OnePlace
    <3> QED BY <2>3, <3>1, <3>2 DEF Places
  <2> QED BY <2>5, <2>6
<1> QED BY <1>1, QueueInvariance, PTL

\* Every variable of the queue keeps its type.
THEOREM QueueTypeCorrect == Spec => []TypeOK
<1>1. QueueInv => TypeOK BY DEF QueueInv
<1> QED BY <1>1, QueueInvariance, PTL

\* The peers run the queue of candidates unchanged: what holds of it holds there.
THEOREM PeerImplementsQueue == PeerSpec => Spec
<1>1. PeerInit => Init BY DEF PeerInit
<1>2. [PeerNext]_PeerVars => [Next]_vars BY DEF PeerNext, DCNext, PeerVars
<1> QED BY <1>1, <1>2, PTL DEF PeerSpec, Spec
-----------------------------------------------------------------------------
(***************************************************************************)
(* The data channel.  What is on its way to an end is a line: the opening  *)
(* or its confirmation, the messages that were accepted and not handled    *)
(* yet, in order, and the end of the stream.                               *)
(***************************************************************************)
Line(lead, opening, w, acc, han, state) ==
  LET rest == Len(acc) - Len(han)
  IN  /\ lead \in {0, 1} /\ rest >= 0 /\ lead + rest <= Len(w)
      /\ lead = 1 => w[1] = opening
      /\ \A i \in 1..rest : w[lead + i] = Message(acc[Len(han) + i])
      /\ \A i \in 1..Len(w) : i > lead + rest => w[i] = <<"end">>
      /\ lead + rest < Len(w) => state = "closed"
      /\ \A i \in 1..Len(han) : han[i] = acc[i]

Opening(e) == IF e = "answer" THEN <<"open">> ELSE <<"ack">>
Lead(e) ==
  IF e = "answer"
  THEN IF ready["offer"] # "connecting" /\ ready["answer"] \in {"none", "connecting"} THEN 1 ELSE 0
  ELSE IF ready["answer"] \in {"open", "closed"} /\ sender["offer"] = "none" THEN 1 ELSE 0

LineInv ==
  \A e \in End :
    Line(Lead(e), Opening(e), wire[e], accepted[Far(e)], handled[e], ready[Far(e)])

\* How the channel opens, and who may send by then.
OpeningInv ==
  /\ ready["offer"] # "none" /\ (ready["offer"] = "connecting" => ready["answer"] = "none")
  /\ sender["answer"] = "none" <=> ready["answer"] = "none"
  /\ sender["offer"] # "none" => ready["answer"] \in {"open", "closed"}
  /\ onMessage["offer"] = TRUE /\ (ready["answer"] # "none" => onMessage["answer"] = TRUE)
  /\ \A e \in End : accepted[e] # <<>> => sender[e] # "none" /\ ready[e] \in {"open", "closed"}

\* The counters and the turns of the loop.
Counting(e) == IF sender[e] = "counting" THEN 1 ELSE 0
CountInv ==
  \A e \in End :
    /\ sender[e] = "none" => turn[e] = 1
    /\ sender[e] # "done" => turn[e] <= MaxMessages
    /\ Len(accepted[e]) <= turn[e] - 1 + Counting(e)
    /\ messagesSent[e] + Counting(e) = Len(accepted[e])
    /\ messagesRecv[e] = Len(handled[e])

DCInv == DCTypeOK /\ OpeningInv /\ CountInv /\ LineInv

Item == Sign \cup {Message(k) : k \in Number}

LEMMA FarEnd ==
  /\ Far("offer") = "answer" /\ Far("answer") = "offer" /\ End = {"offer", "answer"}
  /\ \A e \in End : Far(e) \in End /\ Far(e) # e /\ Far(Far(e)) = e
<1>1. Far("offer") = "answer" /\ Far("answer") = "offer"
  BY DEF Far, End
<1> QED BY <1>1 DEF End

\* The marks of the wire are no messages.
LEMMA Marks ==
  /\ <<"open">> # <<"ack">> /\ <<"open">> # <<"end">> /\ <<"ack">> # <<"end">>
  /\ \A k : Message(k) \notin Sign /\ Message(k) # <<"end">>
  /\ \A j, k : Message(j) = Message(k) => j = k
<1>1. <<"open">>[1] = "open" /\ <<"ack">>[1] = "ack" /\ <<"end">>[1] = "end"
  OBVIOUS
<1>2. \A k : Message(k)[1] = "message" /\ Message(k)[2] = k
  BY DEF Message
<1> QED BY <1>1, <1>2 DEF Sign

\* How a line moves.
LEMMA LineSteps ==
  ASSUME NEW lead \in {0, 1}, NEW opening, NEW w \in Seq(Item), NEW acc \in Seq(Number),
         NEW han \in Seq(Number), NEW state,
         Line(lead, opening, w, acc, han, state)
  PROVE  /\ Line(lead, opening, w, acc, han, "closed")
         /\ state # "closed" => Line(lead, opening, Append(w, <<"end">>), acc, han, "closed")
         /\ state # "closed" => \A k \in Number :
              Line(lead, opening, Append(w, Message(k)), Append(acc, k), han, state)
         /\ lead = 0 /\ acc = <<>> /\ state # "closed" =>
              w = <<>> /\ Line(1, opening, Append(w, opening), acc, han, state)
         /\ lead = 1 => w # <<>> /\ Head(w) = opening /\ Line(0, opening, Tail(w), acc, han, state)
         /\ w # <<>> /\ Head(w) = <<"end">> /\ opening # <<"end">> =>
              lead = 0 /\ Line(0, opening, Tail(w), acc, han, state)
         /\ \A k \in Number : w # <<>> /\ Head(w) = Message(k) /\ opening \in Sign =>
              lead = 0 /\ Line(0, opening, Tail(w), acc, Append(han, k), state)
         /\ w # <<>> /\ Head(w) = opening /\ opening \in {<<"open">>, <<"ack">>} => lead = 1
<1> DEFINE rest == Len(acc) - Len(han)
<1>n. lead \in Nat /\ Len(w) \in Nat /\ Len(acc) \in Nat /\ Len(han) \in Nat /\ rest \in Int
  OBVIOUS
<1> HIDE DEF rest
<1>p. /\ rest >= 0 /\ lead + rest <= Len(w) /\ (lead + rest < Len(w) => state = "closed")
      /\ lead = 1 => w[1] = opening
      /\ \A i \in 1..rest : w[lead + i] = Message(acc[Len(han) + i])
      /\ \A i \in 1..Len(w) : i > lead + rest => w[i] = <<"end">>
      /\ \A i \in 1..Len(han) : han[i] = acc[i]
  BY DEF Line, rest
<1>r. Len(acc) = Len(han) + rest
  BY <1>n DEF rest
<1>l. rest \in Nat /\ lead + rest <= Len(w) /\ (state # "closed" => lead + rest = Len(w))
  BY <1>n, <1>p
<1>t. ASSUME w # <<>>
      PROVE  /\ Len(Tail(w)) = Len(w) - 1 /\ Head(w) = w[1]
             /\ \A i \in 1..Len(Tail(w)) : Tail(w)[i] = w[i + 1]
  BY <1>t
<1>a. ASSUME NEW S, NEW s \in Seq(S), NEW x \in S
      PROVE  /\ Len(Append(s, x)) = Len(s) + 1 /\ Append(s, x)[Len(s) + 1] = x
             /\ \A i \in 1..Len(s) : Append(s, x)[i] = s[i]
  OBVIOUS
<1>1. Line(lead, opening, w, acc, han, "closed")
  BY DEF Line, rest
<1>2. ASSUME state # "closed" PROVE Line(lead, opening, Append(w, <<"end">>), acc, han, "closed")
  <2>1. <<"end">> \in Item
    BY DEF Item, Sign
  <2>2. Len(w) = lead + rest
    BY <1>2, <1>l, <1>p, <1>r
  <2> DEFINE v == Append(w, <<"end">>)
  <2>3. Len(v) = Len(w) + 1 /\ v[Len(w) + 1] = <<"end">> /\ \A i \in 1..Len(w) : v[i] = w[i]
    BY <2>1, <1>a
  <2> HIDE DEF v
  <2>4. Line(lead, opening, v, acc, han, "closed")
    <3>1. lead + rest <= Len(v) /\ \A i \in 1..rest : lead + i \in 1..Len(w)
      BY <2>2, <2>3, <1>l, <1>p, <1>r, <1>n
    <3>2. \A i \in 1..Len(v) : i > lead + rest => v[i] = <<"end">>
      BY <2>2, <2>3, <1>l, <1>p, <1>r, <1>n
    <3>3. lead = 1 => v[1] = w[1]
      BY <2>2, <2>3, <1>l, <1>p, <1>r, <1>n
    <3> QED BY <2>3, <3>1, <3>2, <3>3, <1>l, <1>p, <1>r DEF Line, rest
  <2> QED BY <2>4 DEF v
<1>3. ASSUME state # "closed", NEW k \in Number
      PROVE  Line(lead, opening, Append(w, Message(k)), Append(acc, k), han, state)
  <2>1. Message(k) \in Item
    BY DEF Item
  <2>2. Len(w) = lead + rest
    BY <1>3, <1>l
  <2> DEFINE v == Append(w, Message(k))
             more == Append(acc, k)
  <2>3. /\ Len(v) = Len(w) + 1 /\ v[Len(w) + 1] = Message(k) /\ \A i \in 1..Len(w) : v[i] = w[i]
        /\ Len(more) = Len(acc) + 1 /\ more[Len(acc) + 1] = k
        /\ \A i \in 1..Len(acc) : more[i] = acc[i]
    BY <2>1, <1>a
  <2> HIDE DEF v, more
  <2>4. Line(lead, opening, v, more, han, state)
    <3>1. Len(more) = Len(han) + (rest + 1) /\ Len(v) = lead + (rest + 1)
      BY <2>2, <2>3, <1>r, <1>n
    <3>r. Len(more) - Len(han) = rest + 1
      BY <3>1, <1>n
    <3>6. ASSUME NEW i \in 1..rest PROVE v[lead + i] = Message(more[Len(han) + i])
      <4>1. lead + i \in 1..Len(w) /\ Len(han) + i \in 1..Len(acc)
        BY <2>2, <1>l, <1>r, <1>n
      <4>2. v[lead + i] = w[lead + i] /\ more[Len(han) + i] = acc[Len(han) + i]
        BY <2>3, <4>1
      <4> QED BY <4>2, <1>p
    <3>2. v[lead + (rest + 1)] = Message(more[Len(han) + (rest + 1)])
      BY <2>2, <2>3, <1>l, <1>p, <1>r, <1>n
    <3>3. lead = 1 => v[1] = w[1]
      BY <2>2, <2>3, <1>l, <1>p, <1>r, <1>n
    <3>4. \A i \in 1..Len(han) : han[i] = more[i]
      BY <2>3, <1>l, <1>p, <1>r, <1>n DEF Line, rest
    <3>5. \A i \in 1..(rest + 1) : v[lead + i] = Message(more[Len(han) + i])
      BY <3>2, <3>6, <1>l
    <3> DEFINE ahead == rest + 1
    <3>7. ahead \in Nat /\ ahead = rest + 1
      BY <1>l
    <3> HIDE DEF ahead
    <3>8. Line(lead, opening, v, more, han, state)
           <=> /\ ahead >= 0 /\ lead + ahead <= Len(v)
               /\ lead = 1 => v[1] = opening
               /\ \A i \in 1..ahead : v[lead + i] = Message(more[Len(han) + i])
               /\ \A i \in 1..Len(v) : i > lead + ahead => v[i] = <<"end">>
               /\ lead + ahead < Len(v) => state = "closed"
               /\ \A i \in 1..Len(han) : han[i] = more[i]
      BY <3>r, <3>7 DEF Line
    <3> QED BY <3>1, <3>3, <3>4, <3>5, <3>7, <3>8, <1>l, <1>p, <1>n
  <2> QED BY <2>4 DEF v, more
<1>4. ASSUME lead = 0, acc = <<>>, state # "closed"
      PROVE  w = <<>> /\ Line(1, opening, Append(w, opening), acc, han, state)
  <2>1. Len(acc) = 0 /\ Len(han) = 0 /\ Len(w) = 0 /\ w = <<>>
    BY <1>4, <1>p, <1>r, <1>n
  <2>2. Append(w, opening) = <<opening>>
    BY <2>1
  <2> QED BY <2>1, <2>2, <1>n DEF Line, rest
<1>5. ASSUME lead = 1
      PROVE  w # <<>> /\ Head(w) = opening /\ Line(0, opening, Tail(w), acc, han, state)
  <2>1. Len(w) > 0 /\ w # <<>>
    BY <1>5, <1>p, <1>n
  <2> QED BY <1>5, <2>1, <1>t, <1>n DEF Line, rest
<1>6. ASSUME w # <<>>, Head(w) = <<"end">>, opening # <<"end">>
      PROVE  lead = 0 /\ Line(0, opening, Tail(w), acc, han, state)
  <2>1. Len(w) > 0 /\ w[1] = <<"end">>
    BY <1>6, <1>n, <1>t
  <2>2. lead = 0
    BY <1>6, <2>1, <1>p
  <2>3. rest = 0
    <3>1. ASSUME rest > 0 PROVE FALSE
      <4>1. w[lead + 1] = Message(acc[Len(han) + 1])
        BY <3>1, <1>p, <1>n
      <4>2. w[1] = Message(acc[Len(han) + 1])
        BY <2>2, <4>1
      <4>3. Message(acc[Len(han) + 1]) # <<"end">>
        BY Marks
      <4> QED BY <2>1, <4>2, <4>3
    <3> QED BY <3>1, <1>p, <1>n
  <2> QED BY <1>6, <2>1, <2>2, <2>3, <1>t, <1>n DEF Line, rest
<1>7. ASSUME NEW k \in Number, w # <<>>, Head(w) = Message(k), opening \in Sign
      PROVE  lead = 0 /\ Line(0, opening, Tail(w), acc, Append(han, k), state)
  <2>1. Len(w) > 0 /\ w[1] = Message(k)
    BY <1>7, <1>n, <1>t
  <2>2. lead = 0
    BY <1>7, <2>1, <1>p, Marks
  <2>3. rest > 0
    <3>1. ASSUME rest = 0 PROVE FALSE
      <4>1. 1 \in 1..Len(w) /\ 1 > lead + (rest)
        BY <3>1, <2>1, <2>2, <1>n
      <4>2. w[1] = <<"end">>
        BY <4>1, <1>p
      <4> QED BY <2>1, <4>2, Marks
    <3> QED BY <3>1, <1>p, <1>n
  <2>4. k = acc[Len(han) + 1]
    <3>1. w[lead + 1] = Message(acc[Len(han) + 1])
      BY <2>3, <1>p, <1>n
    <3> QED BY <2>1, <2>2, <3>1, Marks
  <2> QED BY <1>7, <2>1, <2>2, <2>3, <2>4, <1>a, <1>t, <1>n DEF Line, rest
<1>8. ASSUME w # <<>>, Head(w) = opening, opening \in {<<"open">>, <<"ack">>} PROVE lead = 1
  <2>1. Len(w) > 0 /\ w[1] = opening /\ opening \in Sign /\ opening # <<"end">>
    BY <1>8, <1>n, <1>t, Marks DEF Sign
  <2> SUFFICES ASSUME lead = 0 PROVE FALSE
    OBVIOUS
  <2>2. CASE rest > 0
    <3>1. w[lead + 1] = Message(acc[Len(han) + 1])
      BY <2>2, <1>p, <1>n
    <3>2. Message(acc[Len(han) + 1]) \notin Sign
      BY Marks
    <3> QED BY <2>1, <3>1, <3>2
  <2>3. CASE rest = 0
    <3>1. 1 \in 1..Len(w) /\ 1 > lead + rest
      BY <2>1, <2>3, <1>n
    <3> QED BY <2>1, <3>1, <1>p
  <2> QED BY <2>2, <2>3, <1>l
<1> QED BY <1>1, <1>2, <1>3, <1>4, <1>5, <1>6, <1>7, <1>8

\* The types, written out for the provers.
LEMMA ChannelTypes ==
  ASSUME DCTypeOK, NEW e \in End
  PROVE  /\ wire \in [End -> Seq(Item)] /\ wire[e] \in Seq(Item)
         /\ accepted[e] \in Seq(Number) /\ handled[e] \in Seq(Number)
         /\ accepted[Far(e)] \in Seq(Number)
         /\ Lead(e) \in {0, 1} /\ Opening(e) \in Sign /\ Opening(e) # <<"end">>
BY FarEnd, Marks DEF DCTypeOK, Item, Lead, Opening, Sign

LEMMA ChannelInitInv == DCInit => DCInv
<1> SUFFICES ASSUME DCInit PROVE DCInv
  OBVIOUS
<1> USE MaxMessagesAssumption DEF DCInit
<1>1. DCTypeOK
  <2>1. 1 \in 1..MaxMessages + 1 /\ 0 \in 0..MaxMessages /\ <<>> \in Seq(Item) /\ <<>> \in Seq(Number)
    OBVIOUS
  <2> QED BY <2>1 DEF DCTypeOK, Item, End
<1>2. OpeningInv
  BY DEF OpeningInv, End
<1>4. CountInv
  <2>1. \A e \in End : /\ Len(accepted[e]) = 0 /\ Len(handled[e]) = 0 /\ turn[e] = 1
                       /\ sender[e] = "none" /\ messagesSent[e] = 0 /\ messagesRecv[e] = 0
    OBVIOUS
  <2>2. 1 <= MaxMessages
    OBVIOUS
  <2>3. \A e \in End : Counting(e) = 0
    BY <2>1 DEF Counting
  <2> QED BY ONLY <2>1, <2>2, <2>3 DEF CountInv
<1>3. LineInv
  <2>1. \A e \in End : /\ wire[e] = <<>> /\ accepted[Far(e)] = <<>> /\ handled[e] = <<>>
                       /\ Lead(e) = 0
    BY FarEnd DEF Lead
  <2>2. ASSUME NEW opening, NEW state PROVE Line(0, opening, <<>>, <<>>, <<>>, state)
    BY DEF Line
  <2> QED BY <2>1, <2>2 DEF LineInv
<1> QED BY <1>1, <1>2, <1>3, <1>4 DEF DCInv

\* A line that a step does not touch.
LEMMA LineFrame ==
  ASSUME DCInv, NEW e \in End, Lead(e)' = Lead(e), wire'[e] = wire[e],
         accepted'[Far(e)] = accepted[Far(e)], handled'[e] = handled[e],
         ready'[Far(e)] \in {ready[Far(e)], "closed"} \/ ready[Far(e)] # "closed"
  PROVE  Line(Lead(e), Opening(e), wire[e], accepted[Far(e)], handled[e], ready[Far(e)])'
<1>1. Line(Lead(e), Opening(e), wire[e], accepted[Far(e)], handled[e], ready[Far(e)])
  BY DEF DCInv, LineInv
<1>2. Line(Lead(e), Opening(e), wire[e], accepted[Far(e)], handled[e], ready'[Far(e)])
  BY <1>1 DEF Line
<1> QED BY <1>1, <1>2

\* How the line of an end moves.
LEMMA EndLine ==
  ASSUME DCInv, NEW e \in End
  PROVE  LET w == wire[e]
             acc == accepted[Far(e)]
             state == ready[Far(e)]
         IN  /\ Line(Lead(e), Opening(e), w, acc, handled[e], state)
             /\ state # "closed" =>
                  Line(Lead(e), Opening(e), Append(w, <<"end">>), acc, handled[e], "closed")
             /\ state # "closed" => \A k \in Number :
                  Line(Lead(e), Opening(e), Append(w, Message(k)), Append(acc, k), handled[e], state)
             /\ Lead(e) = 1 =>
                  w # <<>> /\ Line(0, Opening(e), Tail(w), acc, handled[e], state)
             /\ w # <<>> /\ Head(w) = <<"end">> =>
                  Lead(e) = 0 /\ Line(0, Opening(e), Tail(w), acc, handled[e], state)
             /\ \A k \in Number : w # <<>> /\ Head(w) = Message(k) =>
                  Lead(e) = 0 /\ Line(0, Opening(e), Tail(w), acc, Append(handled[e], k), state)
             /\ w # <<>> /\ Head(w) = Opening(e) => Lead(e) = 1
<1>1. /\ wire[e] \in Seq(Item) /\ accepted[Far(e)] \in Seq(Number) /\ handled[e] \in Seq(Number)
      /\ Lead(e) \in {0, 1} /\ Opening(e) \in Sign /\ Opening(e) # <<"end">>
  BY ChannelTypes DEF DCInv
<1>2. Opening(e) \in {<<"open">>, <<"ack">>}
  BY DEF Opening
<1>3. Line(Lead(e), Opening(e), wire[e], accepted[Far(e)], handled[e], ready[Far(e)])
  BY DEF DCInv, LineInv
<1> DEFINE lead == Lead(e)
           opening == Opening(e)
           w == wire[e]
           acc == accepted[Far(e)]
           han == handled[e]
           state == ready[Far(e)]
<1>4. /\ w \in Seq(Item) /\ acc \in Seq(Number) /\ han \in Seq(Number)
      /\ lead \in {0, 1} /\ opening \in Sign /\ opening # <<"end">>
      /\ opening \in {<<"open">>, <<"ack">>} /\ Line(lead, opening, w, acc, han, state)
  BY <1>1, <1>2, <1>3
<1> SUFFICES
      /\ Line(lead, opening, w, acc, han, state)
      /\ state # "closed" => Line(lead, opening, Append(w, <<"end">>), acc, han, "closed")
      /\ state # "closed" => \A k \in Number :
           Line(lead, opening, Append(w, Message(k)), Append(acc, k), han, state)
      /\ lead = 1 => w # <<>> /\ Line(0, opening, Tail(w), acc, han, state)
      /\ w # <<>> /\ Head(w) = <<"end">> => lead = 0 /\ Line(0, opening, Tail(w), acc, han, state)
      /\ \A k \in Number : w # <<>> /\ Head(w) = Message(k) =>
           lead = 0 /\ Line(0, opening, Tail(w), acc, Append(han, k), state)
      /\ w # <<>> /\ Head(w) = opening => lead = 1
  OBVIOUS
<1> HIDE DEF lead, opening, w, acc, han, state
<1>5. state # "closed" => Line(lead, opening, Append(w, <<"end">>), acc, han, "closed")
  BY <1>4, LineSteps
<1>6. state # "closed" => \A k \in Number :
        Line(lead, opening, Append(w, Message(k)), Append(acc, k), han, state)
  BY <1>4, LineSteps
<1>7. lead = 1 => w # <<>> /\ Line(0, opening, Tail(w), acc, han, state)
  BY <1>4, LineSteps
<1>8. w # <<>> /\ Head(w) = <<"end">> => lead = 0 /\ Line(0, opening, Tail(w), acc, han, state)
  BY <1>4, LineSteps
<1>9. ASSUME NEW k \in Number, w # <<>>, Head(w) = Message(k)
      PROVE  lead = 0 /\ Line(0, opening, Tail(w), acc, Append(han, k), state)
  BY <1>4, <1>9, LineSteps
<1>10. w # <<>> /\ Head(w) = opening => lead = 1
  BY <1>4, LineSteps
<1> QED BY <1>4, <1>5, <1>6, <1>7, <1>8, <1>9, <1>10

\* The channel comes up.
LEMMA OpensInv ==
  ASSUME DCInv, Opens
  PROVE  DCInv'
<1> USE FarEnd DEF DCInv, sendVars, recvVars, chanVars
<1>o. "offer" \in End /\ "answer" \in End
  OBVIOUS
<1>c. ASSUME UNCHANGED <<turn, accepted, messagesSent, recvVars>>,
             \A e \in End : sender'[e] = sender[e] \/ (sender[e] = "none" /\ sender'[e] = "checking")
      PROVE  CountInv'
  BY <1>c, MaxMessagesAssumption DEF CountInv, Counting
<1>1. CASE Connects
  <2>1. /\ ready["offer"] = "connecting" /\ ready' = [ready EXCEPT !["offer"] = "open"]
        /\ wire' = [wire EXCEPT !["answer"] = Append(@, <<"open">>)]
        /\ UNCHANGED <<onMessage, sendVars, recvVars>>
    BY <1>1 DEF Connects, Puts
  <2>2. ready["answer"] = "none" /\ accepted["offer"] = <<>> /\ ready' \in [End -> {"none", "connecting", "open", "closed"}]
        /\ ready'["offer"] = "open" /\ ready'["answer"] = "none"
    BY <2>1, <1>o DEF OpeningInv, DCTypeOK
  <2>3. Lead("answer") = 0 /\ Lead("answer")' = 1 /\ Lead("offer")' = Lead("offer")
    BY <2>1, <2>2 DEF Lead
  <2>4. Line(0, <<"open">>, wire["answer"], <<>>, handled["answer"], "connecting")
    BY <2>1, <2>2, <2>3, <1>o DEF LineInv, Opening
  <2>5. Line(1, <<"open">>, Append(wire["answer"], <<"open">>), <<>>, handled["answer"], "connecting")
    BY <2>2, <2>4, <1>o, ChannelTypes, LineSteps
  <2>6. Line(1, <<"open">>, Append(wire["answer"], <<"open">>), <<>>, handled["answer"], "open")
    BY <2>5 DEF Line
  <2>7. wire' \in [End -> Seq(Item)] /\ wire'["answer"] = Append(wire["answer"], <<"open">>)
        /\ wire'["offer"] = wire["offer"]
    <3>1. <<"open">> \in Item
      BY DEF Item, Sign
    <3> QED BY <2>1, <3>1, <1>o, ChannelTypes
  <2>8. DCTypeOK'
    BY <2>1, <2>2, <2>7 DEF DCTypeOK, Item
  <2>9. OpeningInv' /\ CountInv'
    BY <2>1, <2>2, <1>c DEF OpeningInv
  <2>10. Line(Lead("offer"), Opening("offer"), wire["offer"], accepted[Far("offer")], handled["offer"],
              ready[Far("offer")])'
    BY <2>1, <2>2, <2>3, <2>7, <1>o, LineFrame
  <2>11. Line(Lead("answer"), Opening("answer"), wire["answer"], accepted[Far("answer")],
              handled["answer"], ready[Far("answer")])'
    BY <2>1, <2>2, <2>3, <2>6, <2>7 DEF Opening
  <2> QED BY <2>8, <2>9, <2>10, <2>11 DEF LineInv
<1>2. CASE OnDataChannel
  <2>0. Lead("answer") = 1
    <3>1. wire["answer"] # <<>> /\ Head(wire["answer"]) = Opening("answer")
      BY <1>2 DEF OnDataChannel, Arrives, Opening
    <3> QED BY <3>1, <1>o, EndLine
  <2>1. /\ ready["answer"] = "none" /\ ready' = [ready EXCEPT !["answer"] = "connecting"]
        /\ onMessage' = [onMessage EXCEPT !["answer"] = TRUE]
        /\ sender' = [sender EXCEPT !["answer"] = "checking"]
        /\ UNCHANGED <<wire, turn, accepted, messagesSent, recvVars>>
    BY <1>2 DEF OnDataChannel, Starts
  <2>2. /\ sender["answer"] = "none" /\ sender["offer"] = "none" /\ accepted["answer"] = <<>>
        /\ ready["offer"] # "connecting"
    BY <2>0, <2>1, <1>o DEF OpeningInv, Lead
  <2>3. DCTypeOK'
    BY <2>1 DEF DCTypeOK
  <2>4. /\ ready'["offer"] = ready["offer"] /\ ready'["answer"] = "connecting"
        /\ sender'["offer"] = "none" /\ sender'["answer"] = "checking"
        /\ onMessage'["offer"] = TRUE /\ onMessage'["answer"] = TRUE
    BY <2>1, <2>2, <1>o DEF DCTypeOK, OpeningInv
  <2>5. OpeningInv' /\ CountInv'
    BY <2>1, <2>2, <2>4, <1>c DEF OpeningInv
  <2>6. \A e \in End : Lead(e)' = Lead(e)
    BY <2>1, <2>2, <2>4 DEF Lead
  <2>7. LineInv'
    BY <2>1, <2>4, <2>6, LineFrame DEF LineInv
  <2> QED BY <2>3, <2>5, <2>7
<1>3. CASE AnswerOpens
  <2>1. /\ ready["answer"] = "connecting" /\ ready' = [ready EXCEPT !["answer"] = "open"]
        /\ wire' = [e \in End |-> IF e = "answer" THEN Tail(wire[e]) ELSE Append(wire[e], <<"ack">>)]
        /\ UNCHANGED <<onMessage, sendVars, recvVars>>
    BY <1>3 DEF AnswerOpens
  <2>2. /\ ready["offer"] # "connecting" /\ sender["offer"] = "none" /\ accepted["answer"] = <<>>
        /\ ready'["offer"] = ready["offer"] /\ ready'["answer"] = "open"
    BY <2>1, <1>o DEF OpeningInv, DCTypeOK
  <2>3. /\ Lead("answer") = 1 /\ Lead("answer")' = 0
        /\ Lead("offer") = 0 /\ Lead("offer")' = 1
    BY <2>1, <2>2 DEF Lead
  <2>4. /\ Line(1, <<"open">>, wire["answer"], accepted["offer"], handled["answer"], ready["offer"])
        /\ Line(0, <<"ack">>, wire["offer"], <<>>, handled["offer"], "connecting")
    BY <2>1, <2>2, <2>3, <1>o DEF LineInv, Opening
  <2>5. /\ wire["answer"] # <<>>
        /\ Line(0, <<"open">>, Tail(wire["answer"]), accepted["offer"], handled["answer"], ready["offer"])
    BY <2>4, <1>o, ChannelTypes, LineSteps
  <2>6. Line(1, <<"ack">>, Append(wire["offer"], <<"ack">>), <<>>, handled["offer"], "connecting")
    BY <2>2, <2>4, <1>o, ChannelTypes, LineSteps
  <2>7. Line(1, <<"ack">>, Append(wire["offer"], <<"ack">>), <<>>, handled["offer"], "open")
    BY <2>6 DEF Line
  <2>8. DCTypeOK'
    <3>1. <<"ack">> \in Item
      BY DEF Item, Sign
    <3>2. wire' \in [End -> Seq(Item)]
      BY <2>1, <2>5, <3>1, <1>o, ChannelTypes
    <3>3. ready' \in [End -> {"none", "connecting", "open", "closed"}]
      BY <2>1 DEF DCTypeOK
    <3> QED BY <2>1, <3>2, <3>3 DEF DCTypeOK, Item
  <2>9. OpeningInv' /\ CountInv'
    BY <2>1, <2>2, <1>c DEF OpeningInv
  <2>10. LineInv'
    BY <2>1, <2>2, <2>3, <2>5, <2>7 DEF LineInv, Opening
  <2> QED BY <2>8, <2>9, <2>10
<1>4. CASE OnOpen
  <2>1. /\ wire["offer"] # <<>> /\ Head(wire["offer"]) = Opening("offer") /\ ready["offer"] = "open"
        /\ wire' = [wire EXCEPT !["offer"] = Tail(@)]
        /\ sender' = [sender EXCEPT !["offer"] = "checking"]
        /\ UNCHANGED <<chanVars, turn, accepted, messagesSent, recvVars>>
    BY <1>4 DEF OnOpen, Arrives, Taken, Starts, Opening
  <2>3. Lead("offer") = 1
    BY <2>1, <1>o, EndLine
  <2>4. Line(0, Opening("offer"), Tail(wire["offer"]), accepted["answer"], handled["offer"],
             ready["answer"])
    BY <2>3, <1>o, EndLine
  <2>5. /\ sender["offer"] = "none" /\ ready["answer"] \in {"open", "closed"}
        /\ sender'["offer"] = "checking" /\ sender'["answer"] = sender["answer"]
    BY <2>1, <2>3, <1>o DEF Lead, DCTypeOK
  <2>6. DCTypeOK'
    <3>1. wire' \in [End -> Seq(Item)]
      BY <2>1, <1>o, ChannelTypes
    <3> QED BY <2>1, <3>1 DEF DCTypeOK, Item
  <2>7. OpeningInv' /\ CountInv'
    BY <2>1, <2>5, <1>c DEF OpeningInv
  <2>8. Lead("offer")' = 0 /\ Lead("answer")' = Lead("answer")
    BY <2>1, <2>5 DEF Lead
  <2>9. wire'["offer"] = Tail(wire["offer"]) /\ wire'["answer"] = wire["answer"]
    BY <2>1, <1>o, ChannelTypes
  <2>10. Line(Lead("offer"), Opening("offer"), wire["offer"], accepted[Far("offer")],
              handled["offer"], ready[Far("offer")])'
    BY <2>1, <2>4, <2>8, <2>9 DEF Opening
  <2>11. Line(Lead("answer"), Opening("answer"), wire["answer"], accepted[Far("answer")],
              handled["answer"], ready[Far("answer")])'
    BY <2>1, <2>8, <2>9, <1>o, LineFrame
  <2> QED BY <2>6, <2>7, <2>10, <2>11 DEF LineInv
<1> QED BY <1>1, <1>2, <1>3, <1>4 DEF Opens

\* The bounds of the loop, written out for the provers.
LEMMA LoopTypes ==
  ASSUME DCInv
  PROVE  /\ MaxMessages \in Nat \ {0}
         /\ sender \in [End -> {"none", "checking", "sending", "counting", "done"}]
         /\ turn \in [End -> 1..(MaxMessages + 1)]
         /\ accepted \in [End -> Seq(Number)] /\ handled \in [End -> Seq(Number)]
         /\ messagesSent \in [End -> 0..MaxMessages] /\ messagesRecv \in [End -> 0..MaxMessages]
         /\ \A e \in End : /\ Len(accepted[e]) \in Nat /\ Len(handled[e]) \in Nat
                           /\ messagesSent[e] \in Nat /\ Counting(e) \in {0, 1}
                           /\ sender[e] \in {"checking", "sending", "counting"} => turn[e] \in 1..MaxMessages
<1>1. /\ MaxMessages \in Nat \ {0}
      /\ sender \in [End -> {"none", "checking", "sending", "counting", "done"}]
      /\ turn \in [End -> 1..(MaxMessages + 1)]
      /\ accepted \in [End -> Seq(Number)] /\ handled \in [End -> Seq(Number)]
      /\ messagesSent \in [End -> 0..MaxMessages] /\ messagesRecv \in [End -> 0..MaxMessages]
  BY MaxMessagesAssumption DEF DCInv, DCTypeOK
<1>2. \A e \in End : Len(accepted[e]) \in Nat /\ Len(handled[e]) \in Nat /\ messagesSent[e] \in Nat
  BY <1>1
<1>3. \A e \in End : Counting(e) \in {0, 1}
  BY DEF Counting
<1>4. ASSUME NEW e \in End, sender[e] \in {"checking", "sending", "counting"}
      PROVE  turn[e] \in 1..MaxMessages
  BY <1>1, <1>4 DEF DCInv, CountInv
<1> QED BY <1>1, <1>2, <1>3, <1>4

\* What the loop does with its turn.
LEMMA NextMessageStep ==
  ASSUME DCInv, NEW e \in End, sender[e] \in {"checking", "sending", "counting"}, NextMessage(e)
  PROVE  /\ turn' \in [End -> 1..(MaxMessages + 1)] /\ turn'[e] = turn[e] + 1
         /\ sender' \in [End -> {"none", "checking", "sending", "counting", "done"}]
         /\ sender'[e] \in {"checking", "done"} /\ (sender'[e] # "done" => turn'[e] <= MaxMessages)
         /\ \A f \in End \ {e} : turn'[f] = turn[f] /\ sender'[f] = sender[f]
<1>1. turn[e] \in 1..MaxMessages /\ turn \in [End -> 1..(MaxMessages + 1)]
      /\ sender \in [End -> {"none", "checking", "sending", "counting", "done"}]
      /\ MaxMessages \in Nat
  BY LoopTypes
<1>2. turn' = [turn EXCEPT ![e] = turn[e] + 1]
      /\ sender' = [sender EXCEPT ![e] = IF turn[e] = MaxMessages THEN "done" ELSE "checking"]
  BY DEF NextMessage
<1>3. turn[e] + 1 \in 1..(MaxMessages + 1)
  BY <1>1
<1>4. turn' \in [End -> 1..(MaxMessages + 1)] /\ turn'[e] = turn[e] + 1
      /\ \A f \in End \ {e} : turn'[f] = turn[f]
  BY <1>1, <1>2, <1>3
<1>5. /\ sender' \in [End -> {"none", "checking", "sending", "counting", "done"}]
      /\ sender'[e] = (IF turn[e] = MaxMessages THEN "done" ELSE "checking")
      /\ \A f \in End \ {e} : sender'[f] = sender[f]
  BY <1>1, <1>2
<1>6. sender'[e] # "done" => turn'[e] <= MaxMessages
  BY <1>1, <1>4, <1>5
<1> QED BY <1>4, <1>5, <1>6

LEMMA GoesStep ==
  ASSUME DCInv, NEW e \in End, NEW s \in {"sending", "counting"}, Goes(e, s)
  PROVE  /\ turn' = turn /\ sender'[e] = s
         /\ sender' \in [End -> {"none", "checking", "sending", "counting", "done"}]
         /\ \A f \in End \ {e} : sender'[f] = sender[f]
BY LoopTypes DEF Goes

\* The lines, when neither the opening nor the ends that are closed change.
LEMMA SendLines ==
  ASSUME DCInv, NEW e \in End, UNCHANGED <<chanVars, handled>>, sender[e] # "none",
         sender'[e] # "none", \A f \in End \ {e} : sender'[f] = sender[f],
         UNCHANGED <<wire, accepted>>
  PROVE  LineInv'
<1>1. \A f \in End : Lead(f)' = Lead(f)
  BY FarEnd DEF Lead, chanVars
<1> QED BY <1>1, LineFrame DEF LineInv, chanVars

\* Counting, at an end whose sender moves on without a new message.
LEMMA SendCountsInv ==
  ASSUME DCInv, NEW e \in End, UNCHANGED <<accepted, recvVars>>,
         turn'[e] \in {turn[e], turn[e] + 1}, sender'[e] # "none", sender[e] # "none",
         sender'[e] # "done" => turn'[e] <= MaxMessages,
         messagesSent'[e] + Counting(e)' = Len(accepted[e]),
         Len(accepted[e]) <= turn'[e] - 1 + Counting(e)',
         \A f \in End \ {e} : sender'[f] = sender[f] /\ turn'[f] = turn[f]
                              /\ messagesSent'[f] = messagesSent[f]
  PROVE  CountInv'
<1>1. \A f \in End \ {e} : Counting(f)' = Counting(f)
  BY DEF Counting
<1> QED BY <1>1 DEF DCInv, CountInv, recvVars

\* The goroutine that sends.
LEMMA SendsInv ==
  ASSUME DCInv, NEW e \in End, Sends(e)
  PROVE  DCInv'
<1>s. sender[e] \in {"checking", "sending", "counting"} /\ UNCHANGED <<chanVars, recvVars>>
  BY DEF Sends, SendChecks, SendSends, SendCounts
<1>t. turn[e] \in 1..MaxMessages /\ MaxMessages \in Nat /\ Len(accepted[e]) \in Nat
      /\ messagesSent[e] \in Nat
  BY <1>s, LoopTypes
<1>c. messagesSent[e] + Counting(e) = Len(accepted[e]) /\ Len(accepted[e]) <= turn[e] - 1 + Counting(e)
  BY DEF DCInv, CountInv
<1>1. CASE SendChecks(e) \/ (SendSends(e) /\ NextMessage(e) /\ UNCHANGED <<accepted, wire>>)
  <2>1. UNCHANGED <<wire, accepted, messagesSent>> /\ sender[e] \in {"checking", "sending"}
        /\ (NextMessage(e) \/ Goes(e, "sending"))
    BY <1>1 DEF SendChecks, SendSends
  <2>2. /\ turn' \in [End -> 1..(MaxMessages + 1)] /\ turn'[e] \in {turn[e], turn[e] + 1}
        /\ sender' \in [End -> {"none", "checking", "sending", "counting", "done"}]
        /\ sender'[e] \in {"checking", "sending", "done"}
        /\ sender'[e] # "done" => turn'[e] <= MaxMessages
        /\ \A f \in End \ {e} : turn'[f] = turn[f] /\ sender'[f] = sender[f]
    <3>1. CASE NextMessage(e)
      BY <1>s, <3>1, NextMessageStep
    <3>2. CASE Goes(e, "sending")
      BY <1>t, <3>2, GoesStep, LoopTypes
    <3> QED BY <2>1, <3>1, <3>2
  <2>3. DCTypeOK'
    BY <1>s, <2>1, <2>2 DEF DCInv, DCTypeOK, chanVars, recvVars
  <2>4. OpeningInv'
    BY <1>s, <2>1, <2>2, FarEnd DEF DCInv, OpeningInv, chanVars
  <2>5. CountInv'
    <3>1. Counting(e) = 0 /\ Counting(e)' = 0
      BY <2>1, <2>2 DEF Counting
    <3>2. messagesSent'[e] + Counting(e)' = Len(accepted[e])
          /\ Len(accepted[e]) <= turn'[e] - 1 + Counting(e)'
      BY <1>c, <1>t, <2>1, <2>2, <3>1
    <3> QED BY <1>s, <2>1, <2>2, <3>2, SendCountsInv
  <2>6. LineInv'
    BY <1>s, <2>1, <2>2, SendLines DEF recvVars
  <2> QED BY <2>3, <2>4, <2>5, <2>6 DEF DCInv
<1>2. CASE SendCounts(e)
  <2>1. /\ sender[e] = "counting" /\ NextMessage(e) /\ UNCHANGED <<wire, accepted>>
        /\ messagesSent' = [messagesSent EXCEPT ![e] = messagesSent[e] + 1]
    BY <1>2 DEF SendCounts
  <2>2. /\ turn' \in [End -> 1..(MaxMessages + 1)] /\ turn'[e] = turn[e] + 1
        /\ sender' \in [End -> {"none", "checking", "sending", "counting", "done"}]
        /\ sender'[e] \in {"checking", "done"} /\ (sender'[e] # "done" => turn'[e] <= MaxMessages)
        /\ \A f \in End \ {e} : turn'[f] = turn[f] /\ sender'[f] = sender[f]
    BY <1>s, <2>1, NextMessageStep
  <2>3. Counting(e) = 1 /\ Counting(e)' = 0
    BY <2>1, <2>2 DEF Counting
  <2>4. messagesSent[e] + 1 \in 0..MaxMessages
    BY <1>c, <1>t, <2>3
  <2>5. /\ messagesSent' \in [End -> 0..MaxMessages] /\ messagesSent'[e] = messagesSent[e] + 1
        /\ \A f \in End \ {e} : messagesSent'[f] = messagesSent[f]
    BY <2>1, <2>4, LoopTypes
  <2>6. DCTypeOK'
    BY <1>s, <2>1, <2>2, <2>5 DEF DCInv, DCTypeOK, chanVars, recvVars
  <2>7. OpeningInv'
    BY <1>s, <2>1, <2>2, FarEnd DEF DCInv, OpeningInv, chanVars
  <2>8. CountInv'
    <3>1. messagesSent'[e] + Counting(e)' = Len(accepted[e])
          /\ Len(accepted[e]) <= turn'[e] - 1 + Counting(e)'
      BY <1>c, <1>t, <2>2, <2>3, <2>5
    <3> QED BY <1>s, <2>1, <2>2, <2>5, <3>1, SendCountsInv
  <2>9. LineInv'
    BY <1>s, <2>1, <2>2, SendLines DEF recvVars
  <2> QED BY <2>6, <2>7, <2>8, <2>9 DEF DCInv
<1>3. CASE SendSends(e) /\ ~(NextMessage(e) /\ UNCHANGED <<accepted, wire>>)
  <2> DEFINE k == turn[e]
  <2>1. /\ ready[e] = "open" /\ Goes(e, "counting") /\ sender[e] = "sending"
        /\ accepted' = [accepted EXCEPT ![e] = Append(accepted[e], k)]
        /\ wire' = [wire EXCEPT ![Far(e)] = Append(wire[Far(e)], Message(k))]
        /\ UNCHANGED <<chanVars, messagesSent, recvVars>>
    BY <1>3 DEF SendSends, Puts
  <2>2. /\ k \in Number /\ Message(k) \in Item /\ turn' = turn /\ sender'[e] = "counting"
        /\ sender' \in [End -> {"none", "checking", "sending", "counting", "done"}]
        /\ \A f \in End \ {e} : sender'[f] = sender[f]
    BY <2>1, <1>t, GoesStep DEF Item, Number
  <2>3. /\ accepted'[e] = Append(accepted[e], k) /\ accepted' \in [End -> Seq(Number)]
        /\ \A f \in End \ {e} : accepted'[f] = accepted[f]
        /\ Len(accepted'[e]) = Len(accepted[e]) + 1
    <3>1. accepted \in [End -> Seq(Number)]
      BY LoopTypes
    <3> QED BY <2>1, <2>2, <3>1
  <2>4. /\ wire'[Far(e)] = Append(wire[Far(e)], Message(k)) /\ wire'[e] = wire[e]
        /\ wire' \in [End -> Seq(Item)]
    <3>1. wire \in [End -> Seq(Item)] /\ Far(e) \in End /\ Far(e) # e
      BY ChannelTypes, FarEnd DEF DCInv
    <3> QED BY <2>1, <2>2, <3>1
  <2>5. DCTypeOK'
    BY <2>1, <2>2, <2>3, <2>4 DEF DCInv, DCTypeOK, Item, chanVars, recvVars
  <2>6. OpeningInv'
    BY <2>1, <2>2, <2>3, FarEnd DEF DCInv, OpeningInv, chanVars
  <2>7. CountInv'
    <3>1. Counting(e) = 0 /\ Counting(e)' = 1 /\ \A f \in End \ {e} : Counting(f)' = Counting(f)
      BY <2>1, <2>2 DEF Counting
    <3>2. Len(accepted'[e]) <= turn'[e] - 1 + Counting(e)'
          /\ messagesSent'[e] + Counting(e)' = Len(accepted'[e]) /\ turn'[e] <= MaxMessages
      BY <1>c, <1>t, <2>1, <2>2, <2>3, <3>1
    <3> QED BY <2>1, <2>2, <2>3, <3>1, <3>2 DEF DCInv, CountInv, recvVars
  <2>8. Line(Lead(Far(e)), Opening(Far(e)), Append(wire[Far(e)], Message(k)),
             Append(accepted[e], k), handled[Far(e)], ready[e])
    <3>1. Far(e) \in End /\ Far(Far(e)) = e
      BY FarEnd
    <3> QED BY <2>1, <2>2, <3>1, EndLine
  <2>9. \A f \in End : Lead(f)' = Lead(f)
    BY <2>1, <2>2, FarEnd DEF Lead, chanVars
  <2>10. LineInv'
    <3>1. Line(Lead(Far(e)), Opening(Far(e)), wire[Far(e)], accepted[e], handled[Far(e)], ready[e])'
      BY <2>1, <2>3, <2>4, <2>8, <2>9, FarEnd DEF chanVars, recvVars
    <3>2. Line(Lead(e), Opening(e), wire[e], accepted[Far(e)], handled[e], ready[Far(e)])'
      <4>1. accepted'[Far(e)] = accepted[Far(e)]
        BY <2>3, FarEnd
      <4> QED BY <2>1, <2>4, <2>9, <4>1, LineFrame DEF chanVars, recvVars
    <3>3. End = {e, Far(e)} /\ Far(Far(e)) = e
      BY FarEnd
    <3> QED BY <3>1, <3>2, <3>3 DEF LineInv
  <2> QED BY <2>5, <2>6, <2>7, <2>10 DEF DCInv
<1> QED BY <1>1, <1>2, <1>3 DEF Sends

\* What an end's reader takes from its line leaves the other line alone.
LEMMA ReaderLines ==
  ASSUME DCInv, NEW e \in End, UNCHANGED sendVars, wire' = Taken(e), wire[e] # <<>>,
         \A f \in End : Lead(f)' = Lead(f),
         \A f \in End : ready'[f] \in {ready[f], "closed"},
         \A f \in End \ {e} : handled'[f] = handled[f],
         Line(Lead(e), Opening(e), Tail(wire[e]), accepted[Far(e)], handled'[e], ready[Far(e)])
  PROVE  LineInv' /\ wire' \in [End -> Seq(Item)]
<1>1. /\ wire \in [End -> Seq(Item)] /\ wire[e] \in Seq(Item)
      /\ Far(e) \in End /\ Far(e) # e /\ Far(Far(e)) = e /\ End = {e, Far(e)}
  BY ChannelTypes, FarEnd DEF DCInv
<1>2. /\ wire'[e] = Tail(wire[e]) /\ wire'[Far(e)] = wire[Far(e)]
      /\ wire' \in [End -> Seq(Item)] /\ UNCHANGED accepted
  BY <1>1 DEF Taken, sendVars
<1>3. Line(Lead(e), Opening(e), wire'[e], accepted'[Far(e)], handled'[e], ready'[Far(e)])
  BY <1>1, <1>2 DEF Line
<1>4. Line(Lead(Far(e)), Opening(Far(e)), wire[Far(e)], accepted[e], handled[Far(e)], ready[e])'
  BY <1>1, <1>2, LineFrame
<1>5. Line(Lead(e), Opening(e), wire[e], accepted[Far(e)], handled[e], ready[Far(e)])'
  BY <1>1, <1>3
<1> QED BY <1>1, <1>2, <1>4, <1>5 DEF LineInv

\* At most as many messages were handled as there can be.
LEMMA HandledBound ==
  ASSUME DCInv, LineInv', accepted' = accepted, handled' \in [End -> Seq(Number)], NEW e \in End
  PROVE  Len(handled'[e]) \in 0..MaxMessages
<1>1. Far(e) \in End
  BY FarEnd
<1>2. /\ Len(accepted[Far(e)]) \in Nat /\ turn[Far(e)] \in 1..(MaxMessages + 1)
      /\ MaxMessages \in Nat /\ Counting(Far(e)) \in {0, 1}
      /\ sender[Far(e)] = "counting" => turn[Far(e)] \in 1..MaxMessages
  BY <1>1, LoopTypes
<1>3. Len(accepted[Far(e)]) <= turn[Far(e)] - 1 + Counting(Far(e))
  BY <1>1 DEF DCInv, CountInv
<1>4. Len(accepted[Far(e)]) <= MaxMessages
  BY <1>2, <1>3 DEF Counting
<1>5. Line(Lead(e), Opening(e), wire[e], accepted[Far(e)], handled[e], ready[Far(e)])'
  BY DEF LineInv
<1>6. Len(accepted[Far(e)]) - Len(handled'[e]) >= 0
  BY <1>5 DEF Line
<1>7. Len(handled'[e]) \in Nat
  OBVIOUS
<1> QED BY <1>2, <1>4, <1>6, <1>7

LEMMA ReceivesInv ==
  ASSUME DCInv, NEW e \in End, Receives(e)
  PROVE  DCInv'
<1>1. PICK k \in Number :
        /\ wire[e] # <<>> /\ Head(wire[e]) = Message(k)
        /\ handled' = IF onMessage[e] THEN [handled EXCEPT ![e] = Append(@, k)] ELSE handled
  BY DEF Receives, Arrives, Handler
<1>2. /\ ready[e] = "open" /\ wire' = Taken(e) /\ UNCHANGED <<chanVars, sendVars>>
      /\ messagesRecv' = [messagesRecv EXCEPT ![e] = messagesRecv[e] + 1]
  BY DEF Receives
<1>3. onMessage[e] = TRUE
  BY <1>2 DEF DCInv, OpeningInv, End
<1>4. handled' = [handled EXCEPT ![e] = Append(handled[e], k)]
  BY <1>1, <1>3
<1>5. /\ handled'[e] = Append(handled[e], k) /\ handled' \in [End -> Seq(Number)]
      /\ Len(handled'[e]) = Len(handled[e]) + 1
      /\ \A f \in End \ {e} : handled'[f] = handled[f]
  BY <1>4, LoopTypes
<1>6. \A f \in End : Lead(f)' = Lead(f)
  BY <1>2 DEF Lead, chanVars, sendVars
<1>7. LineInv' /\ wire' \in [End -> Seq(Item)]
  <2>1. Lead(e) = 0 /\ Line(0, Opening(e), Tail(wire[e]), accepted[Far(e)], Append(handled[e], k),
                            ready[Far(e)])
    BY <1>1, EndLine
  <2>2. Line(Lead(e), Opening(e), Tail(wire[e]), accepted[Far(e)], handled'[e], ready[Far(e)])
    BY <2>1, <1>5
  <2>3. \A f \in End : ready'[f] \in {ready[f], "closed"}
    BY <1>2 DEF chanVars
  <2> QED BY <1>1, <1>2, <1>5, <1>6, <2>2, <2>3, ReaderLines
<1>8. /\ messagesRecv'[e] = Len(handled'[e]) /\ messagesRecv' \in [End -> 0..MaxMessages]
      /\ \A f \in End \ {e} : messagesRecv'[f] = messagesRecv[f]
  <2>1. messagesRecv[e] + 1 = Len(handled'[e])
    BY <1>5 DEF DCInv, CountInv
  <2>2. messagesRecv[e] + 1 \in 0..MaxMessages
    BY <2>1, <1>2, <1>5, <1>7, HandledBound DEF sendVars
  <2> QED BY <1>2, <2>1, <2>2, LoopTypes
<1>9. DCTypeOK'
  BY <1>2, <1>5, <1>7, <1>8 DEF DCInv, DCTypeOK, Item, chanVars, sendVars
<1>10. OpeningInv'
  BY <1>2 DEF DCInv, OpeningInv, chanVars, sendVars
<1>11. CountInv'
  <2>1. \A f \in End : Counting(f)' = Counting(f)
    BY <1>2 DEF Counting, sendVars
  <2>2. \A f \in End : messagesRecv'[f] = Len(handled'[f])
    BY <1>5, <1>8 DEF DCInv, CountInv
  <2> QED BY <1>2, <2>1, <2>2 DEF DCInv, CountInv, sendVars
<1> QED BY <1>7, <1>9, <1>10, <1>11 DEF DCInv

\* Closing, at either end: no line loses its lead.
LEMMA ClosingFrame ==
  ASSUME DCInv, NEW e \in End, ready[e] = "open", ready' = [ready EXCEPT ![e] = "closed"],
         UNCHANGED <<onMessage, sendVars, recvVars>>
  PROVE  /\ \A f \in End : Lead(f)' = Lead(f)
         /\ OpeningInv' /\ CountInv'
         /\ ready' \in [End -> {"none", "connecting", "open", "closed"}]
         /\ ready'[e] = "closed" /\ \A f \in End \ {e} : ready'[f] = ready[f]
<1>1. /\ ready' \in [End -> {"none", "connecting", "open", "closed"}]
      /\ ready'[e] = "closed" /\ \A f \in End \ {e} : ready'[f] = ready[f]
  BY DEF DCInv, DCTypeOK
<1>2. \A f \in End : Lead(f)' = Lead(f)
  BY <1>1, FarEnd DEF Lead, sendVars
<1>3. OpeningInv'
  BY <1>1, FarEnd DEF DCInv, OpeningInv, sendVars
<1>4. CountInv'
  <2>1. \A f \in End : Counting(f)' = Counting(f)
    BY DEF Counting, sendVars
  <2> QED BY <2>1 DEF DCInv, CountInv, sendVars, recvVars
<1> QED BY <1>1, <1>2, <1>3, <1>4

LEMMA ClosesInv ==
  ASSUME DCInv, NEW e \in End, FarCloses(e) \/ Close(e)
  PROVE  DCInv'
<1>1. /\ ready[e] = "open" /\ ready' = [ready EXCEPT ![e] = "closed"]
      /\ UNCHANGED <<onMessage, sendVars, recvVars>>
  BY DEF FarCloses, Close
<1>2. /\ \A f \in End : Lead(f)' = Lead(f)
      /\ OpeningInv' /\ CountInv'
      /\ ready' \in [End -> {"none", "connecting", "open", "closed"}]
      /\ ready'[e] = "closed" /\ \A f \in End \ {e} : ready'[f] = ready[f]
  BY <1>1, ClosingFrame
<1>3. CASE FarCloses(e)
  <2>1. wire[e] # <<>> /\ Head(wire[e]) = <<"end">> /\ wire' = Taken(e)
    BY <1>3 DEF FarCloses, Arrives
  <2>2. Line(Lead(e), Opening(e), Tail(wire[e]), accepted[Far(e)], handled'[e], ready[Far(e)])
    <3>1. Lead(e) = 0 /\ Line(0, Opening(e), Tail(wire[e]), accepted[Far(e)], handled[e], ready[Far(e)])
      BY <2>1, EndLine
    <3> QED BY <1>1, <3>1 DEF recvVars
  <2>3. LineInv' /\ wire' \in [End -> Seq(Item)]
    <3>1. \A f \in End : ready'[f] \in {ready[f], "closed"}
      BY <1>2
    <3>2. \A f \in End \ {e} : handled'[f] = handled[f]
      BY <1>1 DEF recvVars
    <3> QED BY <1>1, <1>2, <2>1, <2>2, <3>1, <3>2, ReaderLines
  <2>4. DCTypeOK'
    BY <1>1, <1>2, <2>3 DEF DCInv, DCTypeOK, Item, sendVars, recvVars
  <2> QED BY <1>2, <2>3, <2>4 DEF DCInv
<1>4. CASE Close(e)
  <2>1. wire' = [wire EXCEPT ![Far(e)] = Append(wire[Far(e)], <<"end">>)]
    BY <1>4 DEF Close, Puts
  <2>2. Far(e) \in End /\ Far(e) # e /\ Far(Far(e)) = e /\ End = {e, Far(e)}
    BY FarEnd
  <2>3. /\ wire'[Far(e)] = Append(wire[Far(e)], <<"end">>) /\ wire'[e] = wire[e]
        /\ wire' \in [End -> Seq(Item)]
    <3>1. wire \in [End -> Seq(Item)]
      BY <2>2, ChannelTypes DEF DCInv
    <3>2. <<"end">> \in Item
      BY DEF Item, Sign
    <3> QED BY <2>1, <2>2, <3>1, <3>2
  <2>4. Line(Lead(Far(e)), Opening(Far(e)), Append(wire[Far(e)], <<"end">>), accepted[e],
             handled[Far(e)], "closed")
    BY <1>1, <2>2, EndLine
  <2>5. Line(Lead(Far(e)), Opening(Far(e)), wire[Far(e)], accepted[e], handled[Far(e)], ready[e])'
    BY <1>1, <1>2, <2>2, <2>3, <2>4 DEF sendVars, recvVars
  <2>6. Line(Lead(e), Opening(e), wire[e], accepted[Far(e)], handled[e], ready[Far(e)])'
    BY <1>1, <1>2, <2>2, <2>3, LineFrame DEF sendVars, recvVars
  <2>7. LineInv'
    BY <2>2, <2>5, <2>6 DEF LineInv
  <2>8. DCTypeOK'
    BY <1>1, <1>2, <2>3 DEF DCInv, DCTypeOK, Item, sendVars, recvVars
  <2> QED BY <1>2, <2>7, <2>8 DEF DCInv
<1> QED BY <1>3, <1>4

LEMMA ChannelStepInv ==
  ASSUME DCInv, [PeerNext]_PeerVars
  PROVE  DCInv'
<1>1. CASE DCNext
  <2>1. CASE Opens
    BY <2>1, OpensInv
  <2>2. ASSUME NEW e \in End, Sends(e) PROVE DCInv'
    BY <2>2, SendsInv
  <2>3. ASSUME NEW e \in End, Reads(e) \/ Close(e) PROVE DCInv'
    BY <2>3, ReceivesInv, ClosesInv DEF Reads
  <2> QED BY <1>1, <2>1, <2>2, <2>3 DEF DCNext
<1>2. CASE UNCHANGED dcVars
  <2>1. DCTypeOK'
    BY <1>2 DEF DCInv, DCTypeOK, dcVars, chanVars, sendVars, recvVars
  <2>2. OpeningInv'
    BY <1>2 DEF DCInv, OpeningInv, dcVars, chanVars, sendVars, recvVars
  <2>3. CountInv'
    <3>1. \A e \in End : Counting(e)' = Counting(e)
      BY <1>2 DEF Counting, dcVars, sendVars
    <3> QED BY <1>2, <3>1 DEF DCInv, CountInv, dcVars, chanVars, sendVars, recvVars
  <2>4. LineInv'
    <3>1. \A e \in End : Lead(e)' = Lead(e)
      BY <1>2 DEF Lead, dcVars, chanVars, sendVars
    <3> QED BY <1>2, <3>1 DEF DCInv, LineInv, dcVars, chanVars, sendVars, recvVars
  <2> QED BY <2>1, <2>2, <2>3, <2>4 DEF DCInv
<1> QED BY <1>1, <1>2 DEF PeerNext, PeerVars

LEMMA ChannelInvariance == PeerSpec => []DCInv
<1>1. PeerInit => DCInv BY ChannelInitInv DEF PeerInit
<1> QED BY <1>1, ChannelStepInv, PTL DEF PeerSpec

\* Every variable of the channel keeps its type.
THEOREM ChannelTypeCorrect == PeerSpec => []DCTypeOK
<1>1. DCInv => DCTypeOK BY DEF DCInv
<1> QED BY <1>1, ChannelInvariance, PTL

\* For any number of messages, sent from both ends while the channel opens, is
\* closed or fails: a handler sees a prefix of what the other end sent.
THEOREM HandledInOrder == PeerSpec => []HandledIsPrefix
<1>1. DCInv => HandledIsPrefix
  <2> SUFFICES ASSUME DCInv, NEW e \in End
               PROVE  IsPrefix(handled[e], accepted[Far(e)])
    BY DEF HandledIsPrefix
  <2> DEFINE han == handled[e]
             acc == accepted[Far(e)]
  <2>1. han \in Seq(Number) /\ acc \in Seq(Number)
    BY ChannelTypes DEF DCInv
  <2>2. Len(acc) - Len(han) >= 0 /\ \A i \in 1..Len(han) : han[i] = acc[i]
    BY DEF DCInv, LineInv, Line
  <2> HIDE DEF han, acc
  <2>3. Len(han) \in Nat /\ Len(acc) \in Nat /\ Len(han) <= Len(acc)
    BY <2>1, <2>2
  <2>4. han = SubSeq(acc, 1, Len(han))
    <3>1. /\ SubSeq(acc, 1, Len(han)) \in Seq(Number) /\ Len(SubSeq(acc, 1, Len(han))) = Len(han)
          /\ \A i \in 1..Len(han) : SubSeq(acc, 1, Len(han))[i] = acc[i]
      BY <2>1, <2>3
    <3> QED BY <2>1, <2>2, <3>1
  <2>5. IsPrefix(han, acc)
    BY <2>3, <2>4 DEF IsPrefix
  <2> QED BY <2>5 DEF han, acc
<1> QED BY <1>1, ChannelInvariance, PTL

\* The counters of the two ends agree, up to what is under way.
THEOREM CountersAgree == PeerSpec => []CountsAgree
<1>1. DCInv => CountsAgree
  <2> SUFFICES ASSUME DCInv, NEW e \in End
               PROVE  messagesRecv[e] + UnderWay(e)
                        = messagesSent[Far(e)] + (IF sender[Far(e)] = "counting" THEN 1 ELSE 0)
    BY DEF CountsAgree
  <2> DEFINE lead == Lead(e)
             rest == Len(accepted[Far(e)]) - Len(handled[e])
             w == wire[e]
  <2>1. /\ lead \in {0, 1} /\ w \in Seq(Item) /\ Opening(e) \in Sign
        /\ Len(accepted[Far(e)]) \in Nat /\ Len(handled[e]) \in Nat
    BY ChannelTypes, LoopTypes, FarEnd DEF DCInv
  <2>2. /\ rest >= 0 /\ lead + rest <= Len(w) /\ (lead = 1 => w[1] = Opening(e))
        /\ \A i \in 1..rest : w[lead + i] = Message(accepted[Far(e)][Len(handled[e]) + i])
        /\ \A i \in 1..Len(w) : i > lead + rest => w[i] = <<"end">>
    BY DEF DCInv, LineInv, Line
  <2>3. rest \in Nat
    BY <2>1, <2>2
  <2>4. messagesRecv[e] = Len(handled[e])
        /\ messagesSent[Far(e)] + Counting(Far(e)) = Len(accepted[Far(e)])
    BY FarEnd DEF DCInv, CountInv
  <2>5. Cardinality({i \in DOMAIN w : w[i] \notin Sign}) = rest
    <3> HIDE DEF lead, rest, w
    <3>1. Len(w) \in Nat /\ DOMAIN w = 1..Len(w)
      BY <2>1
    <3>2. ASSUME NEW i \in 1..Len(w) PROVE w[i] \notin Sign <=> i \in (lead + 1)..(lead + rest)
      <4>1. CASE i \in (lead + 1)..(lead + rest)
        <5>1. i - lead \in 1..rest /\ lead + (i - lead) = i
          BY <4>1, <2>1, <2>3
        <5>2. w[i] = Message(accepted[Far(e)][Len(handled[e]) + (i - lead)])
          BY <5>1, <2>2
        <5> QED BY <4>1, <5>2, Marks
      <4>2. CASE i > lead + rest
        <5>1. w[i] = <<"end">>
          BY <4>2, <2>2
        <5> QED BY <4>2, <5>1, <2>1, <2>3 DEF Sign
      <4>3. CASE i <= lead
        <5>1. i = 1 /\ lead = 1
          BY <4>3, <2>1
        <5> QED BY <4>3, <5>1, <2>1, <2>2
      <4> QED BY <4>1, <4>2, <4>3, <2>1, <2>3
    <3>3. {i \in DOMAIN w : w[i] \notin Sign} = (lead + 1)..(lead + rest)
      BY <3>1, <3>2, <2>1, <2>2, <2>3
    <3>4. Cardinality((lead + 1)..(lead + rest)) = rest
      <4>1. lead + 1 \in Int /\ lead + rest \in Int
        BY <2>1, <2>3
      <4>2. Cardinality((lead + 1)..(lead + rest))
              = IF lead + 1 > lead + rest THEN 0 ELSE (lead + rest) - (lead + 1) + 1
        BY <4>1, FS_Interval
      <4> QED BY <4>2, <2>1, <2>3
    <3> QED BY <3>3, <3>4
  <2> QED BY <2>1, <2>4, <2>5 DEF UnderWay, Counting
<1> QED BY <1>1, ChannelInvariance, PTL
=============================================================================
