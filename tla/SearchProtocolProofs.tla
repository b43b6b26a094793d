------------------------- MODULE SearchProtocolProofs -------------------------
(***************************************************************************)
(* Proofs about SearchProtocol, for any commands and script, any number of *)
(* rows, attempts and slots of the channels.                               *)
(***************************************************************************)
EXTENDS SearchProtocol, FiniteSetTheorems, SequenceTheorems, TLAPS

-----------------------------------------------------------------------------
(* The invariant.                                                          *)

\* A command that is at p has sent a message cmd and waits for its answer.
Awaits(p, cmd) ==
    \/ cmd = "Drop" /\ p \in {"clearing", "dropping", "failDrop", "cancelDrop"}
    \/ cmd = "Len" /\ p = "len"
    \/ cmd = "Get" /\ p = "get"
    \/ cmd = "Set" /\ p \in {"putBack", "put", "fail", "cancel"}
    \/ cmd = "Matches" /\ p = "show"
    \/ cmd = (IF plan.kind = "regular" THEN "Clear" ELSE "Drop") /\ p = "tick"

\* The state loop forwards this message and waits for the searchers.
IsAnswered(m) == m.cmd = "Get" \/ (m.cmd = "Drop" /\ m.kind = "regular")

\* A message has its sender, who waits for the answer, or lost it; only who
\* has sent a tick may be lost.
Sound(m) ==
    /\ m.from # None =>
        /\ m.kind = plan.kind
        /\ reply[m.from] = NoReply
        /\ Awaits(pc[m.from], m.cmd)
    /\ m.cmd \in {"Len", "Set", "Matches"} \/ IsAnswered(m) => m.from # None

\* All messages on their way to the searchers, the oldest first.
Line == requests \o outbox \o api

\* No command has two of them.
LineInv ==
    /\ \A i \in DOMAIN Line : Sound(Line[i])
    /\ \A i, j \in DOMAIN Line :
        Line[i].from = Line[j].from /\ Line[i].from # None => i = j

\* What the state loop serves is forwarded once and answered once.
ServiceInv ==
    /\ stateLoop # "busy" => outbox = <<>> /\ serving = Nothing /\ answer = NoReply
    /\ stateLoop = "failed" => api = <<>>
    /\ IsAnswered(serving) =>
        /\ Sound(serving)
        /\ answer # NoReply => \A i \in DOMAIN Line : Line[i].from # serving.from
    /\ \A i \in DOMAIN outbox :
        IsAnswered(outbox[i]) => outbox = <<serving>> /\ answer = NoReply
    /\ \A i \in DOMAIN requests :
        IsAnswered(requests[i]) =>
            requests[i] = serving /\ outbox = <<>> /\ answer = NoReply
    /\ answer.status # "lost"

\* An answer is only lost when the state loop has ended, and whoever brings a
\* holder back is not refused.
ReplyInv ==
    \A r \in Requests :
        /\ reply[r].status = "lost" => stateLoop = "failed"
        /\ pc[r] \in {"put", "putBack", "fail", "cancel"} => reply[r].status # "refused"

\* Only the holder of the plan's kind is ever lent, to one command at most,
\* and to one exactly as long as there is a state loop.
OwnerInv ==
    /\ \A r \in Requests : Borrows(r) => slot[plan.kind] = "InUse"
    /\ \A r, q \in Requests : Borrows(r) /\ Borrows(q) => r = q
    /\ stateLoop # "failed" /\ slot[plan.kind] = "InUse" => \E r \in Requests : Borrows(r)
    /\ \A k \in Kinds : slot[k] # "NotInited" => k = plan.kind
    /\ \A k \in Kinds : slot[k] = "InUse" => holder[k] = NewHolder

IInv == TypeOK /\ LineInv /\ ServiceInv /\ ReplyInv /\ OwnerInv

\* A step in which no command comes by a holder.
NobodyBorrows == \A q \in Requests : Borrows(q)' => Borrows(q)

-----------------------------------------------------------------------------
(* Sequences of messages.                                                  *)

\* Three channels in a row, and their elements.
LEMMA Joined ==
    ASSUME NEW S, NEW a \in Seq(S), NEW b \in Seq(S), NEW c \in Seq(S)
    PROVE  /\ a \o b \o c \in Seq(S)
           /\ Len(a) \in Nat /\ Len(b) \in Nat /\ Len(c) \in Nat
           /\ Len(a \o b \o c) = Len(a) + Len(b) + Len(c)
           /\ \A i \in 1..Len(a) : (a \o b \o c)[i] = a[i]
           /\ \A i \in 1..Len(b) : (a \o b \o c)[Len(a) + i] = b[i]
           /\ \A i \in 1..Len(c) : (a \o b \o c)[Len(a) + Len(b) + i] = c[i]
  <1> DEFINE ab == a \o b
  <1>1. /\ Len(a) \in Nat /\ Len(b) \in Nat /\ Len(c) \in Nat
    BY LenProperties
  <1>2. /\ ab \in Seq(S) /\ Len(ab) = Len(a) + Len(b)
        /\ \A i \in 1..Len(a) + Len(b) :
             ab[i] = IF i <= Len(a) THEN a[i] ELSE b[i - Len(a)]
    BY ConcatProperties
  <1>3. /\ ab \o c \in Seq(S) /\ Len(ab \o c) = Len(ab) + Len(c)
        /\ \A i \in 1..Len(ab) + Len(c) :
             (ab \o c)[i] = IF i <= Len(ab) THEN ab[i] ELSE c[i - Len(ab)]
    BY <1>2, ConcatProperties
  <1> HIDE DEF ab
  <1>4. \A i \in 1..Len(a) : (ab \o c)[i] = a[i]
    BY <1>1, <1>2, <1>3
  <1>5. \A i \in 1..Len(b) : (ab \o c)[Len(a) + i] = b[i]
    <2> SUFFICES ASSUME NEW i \in 1..Len(b) PROVE (ab \o c)[Len(a) + i] = b[i]
      OBVIOUS
    <2>1. Len(a) + i \in 1..Len(a) + Len(b) /\ ~(Len(a) + i <= Len(a))
      BY <1>1
    <2>2. ab[Len(a) + i] = b[i]
      BY <1>1, <1>2, <2>1
    <2>3. QED
      BY <1>1, <1>2, <1>3, <2>1, <2>2
  <1>6. \A i \in 1..Len(c) : (ab \o c)[Len(a) + Len(b) + i] = c[i]
    BY <1>1, <1>2, <1>3
  <1>7. QED
    BY <1>1, <1>2, <1>3, <1>4, <1>5, <1>6 DEF ab

\* The sequence m of elements of S is l without its head.
IsTail(m, l, S) ==
    /\ m \in Seq(S)
    /\ Len(l) = Len(m) + 1 /\ Len(m) \in Nat
    /\ \A i \in 1..Len(m) : m[i] = l[i + 1]

\* The first channel loses its head.
LEMMA JoinedTail ==
    ASSUME NEW S, NEW a \in Seq(S), NEW b \in Seq(S), NEW c \in Seq(S), a # <<>>
    PROVE  /\ IsTail(Tail(a) \o b \o c, a \o b \o c, S)
           /\ (a \o b \o c)[1] = Head(a)
  <1> DEFINE l == a \o b \o c
             t == Tail(a)
             m == t \o b \o c
  <1>1. /\ t \in Seq(S) /\ Len(t) = Len(a) - 1 /\ Len(a) \in Nat \ {0}
        /\ \A i \in 1..Len(t) : t[i] = a[i + 1]
        /\ Head(a) = a[1]
    BY HeadTailProperties, LenProperties, EmptySeq
  <1>2. /\ l \in Seq(S) /\ Len(b) \in Nat /\ Len(c) \in Nat
        /\ Len(l) = Len(a) + Len(b) + Len(c)
        /\ \A i \in 1..Len(a) : l[i] = a[i]
        /\ \A i \in 1..Len(b) : l[Len(a) + i] = b[i]
        /\ \A i \in 1..Len(c) : l[Len(a) + Len(b) + i] = c[i]
    BY Joined
  <1>3. /\ m \in Seq(S)
        /\ Len(m) = Len(t) + Len(b) + Len(c)
        /\ \A i \in 1..Len(t) : m[i] = t[i]
        /\ \A i \in 1..Len(b) : m[Len(t) + i] = b[i]
        /\ \A i \in 1..Len(c) : m[Len(t) + Len(b) + i] = c[i]
    BY <1>1, Joined
  <1> HIDE DEF l, m, t
  <1>4. ASSUME NEW i \in 1..Len(m) PROVE m[i] = l[i + 1]
    <2>1. CASE i <= Len(t)
      BY <1>1, <1>2, <1>3, <2>1
    <2>2. CASE i > Len(t) /\ i <= Len(t) + Len(b)
      <3> DEFINE j == i - Len(t)
      <3>1. j \in 1..Len(b) /\ i = Len(t) + j /\ i + 1 = Len(a) + j
        BY <1>1, <1>2, <1>3, <2>2
      <3> HIDE DEF j
      <3>2. m[Len(t) + j] = b[j] /\ l[Len(a) + j] = b[j]
        BY <1>2, <1>3, <3>1
      <3>3. QED
        BY <3>1, <3>2
    <2>3. CASE i > Len(t) + Len(b)
      <3> DEFINE j == i - Len(t) - Len(b)
      <3>1. /\ j \in 1..Len(c) /\ i = Len(t) + Len(b) + j
            /\ i + 1 = Len(a) + Len(b) + j
        BY <1>1, <1>2, <1>3, <2>3
      <3> HIDE DEF j
      <3>2. m[Len(t) + Len(b) + j] = c[j] /\ l[Len(a) + Len(b) + j] = c[j]
        BY <1>2, <1>3, <3>1
      <3>3. QED
        BY <3>1, <3>2
    <2>4. QED
      BY <1>1, <1>2, <1>3, <2>1, <2>2, <2>3
  <1>5. QED
    <2>1. IsTail(m, l, S) /\ l[1] = Head(a)
      BY <1>1, <1>2, <1>3, <1>4 DEF IsTail
    <2>2. QED
      BY <2>1 DEF l, m, t

\* The head of the second channel goes to the end of the first one, ...
LEMMA JoinedMove ==
    ASSUME NEW S, NEW a \in Seq(S), NEW b \in Seq(S), NEW c \in Seq(S), b # <<>>
    PROVE  Append(a, Head(b)) \o Tail(b) \o c = a \o b \o c
  <1>1. Head(b) \in S /\ Tail(b) \in Seq(S) /\ b = <<Head(b)>> \o Tail(b)
    <2> DEFINE h == <<Head(b)>>
    <2>1. /\ Head(b) \in S /\ Tail(b) \in Seq(S) /\ Len(Tail(b)) = Len(b) - 1
          /\ \A i \in 1..Len(Tail(b)) : Tail(b)[i] = b[i + 1]
          /\ Len(b) \in Nat \ {0} /\ Head(b) = b[1]
      BY HeadTailProperties, LenProperties, EmptySeq
    <2>2. h \in Seq(S) /\ Len(h) = 1 /\ h[1] = Head(b)
      BY <2>1
    <2>3. /\ h \o Tail(b) \in Seq(S) /\ Len(h \o Tail(b)) = Len(b)
          /\ \A i \in 1..Len(b) : (h \o Tail(b))[i] =
                 IF i <= 1 THEN h[i] ELSE Tail(b)[i - 1]
      BY <2>1, <2>2, ConcatProperties
    <2> HIDE DEF h
    <2>4. \A i \in 1..Len(b) : (h \o Tail(b))[i] = b[i]
      BY <2>1, <2>2, <2>3
    <2>5. h \o Tail(b) = b
      BY <2>3, <2>4, SeqEqual
    <2>6. QED
      BY <2>1, <2>5 DEF h
  <1>2. Append(a, Head(b)) = a \o <<Head(b)>>
    BY <1>1, AppendIsConcat
  <1>3. <<Head(b)>> \in Seq(S)
    BY <1>1
  <1>4. (a \o <<Head(b)>>) \o Tail(b) = a \o (<<Head(b)>> \o Tail(b))
    BY <1>1, <1>3, ConcatAssociative
  <1>5. QED
    BY <1>1, <1>2, <1>4

\* ... and one more message to the end of the third.
LEMMA JoinedAppend ==
    ASSUME NEW S, NEW a \in Seq(S), NEW b \in Seq(S), NEW c \in Seq(S), NEW m \in S
    PROVE  a \o b \o Append(c, m) = Append(a \o b \o c, m)
  <1>1. a \o b \in Seq(S) /\ <<m>> \in Seq(S)
    BY ConcatProperties
  <1>2. Append(c, m) = c \o <<m>>
    BY AppendIsConcat
  <1>3. (a \o b) \o (c \o <<m>>) = ((a \o b) \o c) \o <<m>>
    BY <1>1, ConcatAssociative
  <1>4. (a \o b) \o c \in Seq(S)
    BY <1>1, ConcatProperties
  <1>5. QED
    BY <1>2, <1>3, <1>4, AppendIsConcat

-----------------------------------------------------------------------------
(* Types.                                                                  *)

LEMMA KindOfPlan ==
    ASSUME TypeOK
    PROVE  /\ plan.kind \in Kinds
           /\ \A r \in Requests : KindOf(r) \in Kinds /\ KindOf(r) = plan.kind
  BY ConstantsAssumption DEF TypeOK, KindOf

\* What is sent is a message, and what is answered is a reply.
LEMMA MessageTypes ==
    ASSUME TypeOK
    PROVE  /\ \A r \in Requests, cmd \in {"Drop", "Len", "Get", "Matches", "Clear"} :
                Message(cmd, KindOf(r), r) \in Messages
           /\ \A r \in Requests : DropOf(r) \in Messages /\ GivingNothing(r) \in Messages
           /\ \A r \in Requests, h \in Holders : Giving(r, h) \in Messages
           /\ \A k \in Kinds, n \in Nat : Update(k, n) \in Messages
           /\ Nothing \in Messages /\ Write \in Messages
           /\ NewHolder \in Holders
           /\ NoReply \in Replies /\ Yes \in Replies /\ No \in Replies /\ Lost \in Replies
           /\ \A h \in Holders, n \in Nat : Reply("ok", h, n) \in Replies
  <1>1. NewHolder \in Holders
    BY DEF NewHolder, Holders
  <1>2. /\ NoReply \in Replies /\ Yes \in Replies /\ No \in Replies /\ Lost \in Replies
        /\ \A h \in Holders, n \in Nat : Reply("ok", h, n) \in Replies
    BY <1>1 DEF NoReply, Yes, No, Lost, Reply, Replies
  <1>3. \A r \in Requests \cup {None}, k \in Kinds,
          cmd \in {"None", "Write", "Search", "Drop", "Len", "Get", "Set", "Matches", "Clear"} :
          Message(cmd, k, r) \in Messages
    BY <1>1 DEF Message, Messages
  <1>4. \A r \in Requests, h \in Holders : Giving(r, h) \in Messages
    <2> SUFFICES ASSUME NEW r \in Requests, NEW h \in Holders PROVE Giving(r, h) \in Messages
      OBVIOUS
    <2>1. Message("Set", KindOf(r), r) \in Messages
      BY <1>3, KindOfPlan
    <2>2. \A m \in Messages : [m EXCEPT !.some = TRUE] \in Messages
      BY DEF Messages
    <2>3. \A m \in Messages : [m EXCEPT !.holder = h] \in Messages
      BY DEF Messages
    <2>4. QED
      BY <2>1, <2>2, <2>3 DEF Giving
  <1>5. \A k \in Kinds, n \in Nat : Update(k, n) \in Messages
    BY <1>3 DEF Update, Messages
  <1>6. QED
    BY <1>1, <1>2, <1>3, <1>4, <1>5, KindOfPlan
       DEF DropOf, GivingNothing, Nothing, Write, Kinds

\* The parts of the messages that the invariant speaks of.
LEMMA MessageParts ==
    /\ \A r, k, cmd : /\ Message(cmd, k, r).from = r /\ Message(cmd, k, r).kind = k
                      /\ Message(cmd, k, r).cmd = cmd
    /\ \A r, h : /\ Giving(r, h).from = r /\ Giving(r, h).kind = KindOf(r)
                 /\ Giving(r, h).cmd = "Set" /\ Giving(r, h).holder = h
                 /\ Giving(r, h).some
    /\ \A k, n : /\ Update(k, n).from = None /\ Update(k, n).kind = k
                 /\ Update(k, n).cmd = "Search"
  BY DEF Message, Giving, Update

\* What becomes of a message when r has dropped its receiver.
Orphaned(m, r) == IF m.from = r THEN [m EXCEPT !.from = None] ELSE m

LEMMA OrphanType ==
    ASSUME NEW q \in Seq(Messages), NEW r
    PROVE  /\ Orphan(q, r) \in Seq(Messages)
           /\ Len(Orphan(q, r)) = Len(q)
           /\ \A i \in 1..Len(q) :
                Orphan(q, r)[i] = Orphaned(q[i], r)
           /\ q = <<>> => Orphan(q, r) = <<>>
  <1>1. /\ Len(q) \in Nat /\ DOMAIN q = 1..Len(q) /\ \A i \in 1..Len(q) : q[i] \in Messages
    BY LenProperties
  <1>2. \A m \in Messages : [m EXCEPT !.from = None] \in Messages
    BY DEF Messages
  <1>3. Orphan(q, r) = [i \in 1..Len(q) |->
                          IF q[i].from = r THEN [q[i] EXCEPT !.from = None] ELSE q[i]]
    BY <1>1 DEF Orphan
  <1>4. QED
    BY <1>1, <1>2, <1>3 DEF Orphaned

LEMMA InitType == Init => TypeOK
  <1> SUFFICES ASSUME Init PROVE TypeOK
    OBVIOUS
  <1>1. /\ NewHolder \in Holders /\ NoReply \in Replies /\ Nothing \in Messages
    BY DEF NewHolder, Holders, NoReply, Reply, Replies, Nothing, Message, Messages, Kinds
  <1>2. QED
    BY <1>1 DEF Init, TypeOK, Steps, Kinds

\* Asking the state loop, or taking its last answer.
LEMMA AskType ==
    ASSUME TypeOK, NEW r \in Requests, NEW m \in Messages, Ask(r, m)
    PROVE  reply' \in [Requests -> Replies] /\ api' \in Seq(Messages)
  <1>1. Lost \in Replies /\ NoReply \in Replies
    BY MessageTypes
  <1>2. Append(api, m) \in Seq(Messages)
    BY AppendProperties DEF TypeOK
  <1>3. QED
    BY <1>1, <1>2 DEF Ask, TypeOK

LEMMA AskNextType ==
    ASSUME TypeOK, NEW r \in Requests, NEW m \in Messages, NEW from, NEW status,
           NEW to \in Steps, AskNext(r, from, status, m, to)
    PROVE  /\ reply' \in [Requests -> Replies] /\ api' \in Seq(Messages)
           /\ pc' \in [Requests -> Steps]
  BY AskType DEF AskNext, TypeOK

LEMMA EndsType ==
    ASSUME TypeOK, NEW r \in Requests, NEW from, NEW status, NEW to \in Steps,
           Ends(r, from, status, to)
    PROVE  /\ reply' \in [Requests -> Replies] /\ api' = api
           /\ pc' \in [Requests -> Steps]
  BY MessageTypes DEF Ends, TypeOK

LEMMA FoundByType ==
    ASSUME NEW h \in Holders, NEW n \in Nat, h.by # None, n >= h.upTo
    PROVE  /\ FoundBy(h, n) \in Seq(Matches)
           /\ Len(FoundBy(h, n)) = n - h.upTo
           /\ Advanced(h, n) \in Holders
  <1>1. n - h.upTo \in Nat /\ h.upTo \in Nat /\ h.by \in Requests
    BY DEF Holders
  <1> DEFINE d == n - h.upTo
             f == [i \in 1..d |-> [by |-> h.by, row |-> h.upTo + i]]
  <1>2. \A i \in 1..d : [by |-> h.by, row |-> h.upTo + i] \in Matches
    BY <1>1 DEF Matches
  <1>3. Advanced(h, n) \in Holders
    BY DEF Advanced, Holders
  <1>4. d \in Nat /\ f \in [1..d -> Matches] /\ DOMAIN f = 1..d /\ FoundBy(h, n) = f
    BY <1>1, <1>2 DEF FoundBy
  <1> HIDE DEF d, f
  <1>5. f \in Seq(Matches) /\ Len(f) = d
    BY <1>4, SeqDef, LenProperties
  <1>6. QED
    BY <1>3, <1>4, <1>5 DEF d

\* A command's task and its background search keep the types.
LEMMA TaskType ==
    ASSUME TypeOK, NEW r \in Requests, Task(r), UNCHANGED plan
    PROVE  TypeOK'
  <1> USE DEF Elsewhere, loopVars, searchVars, viewVars, fileVars, taskVars, chanVars
  <1>1. CASE Starts(r)
    <2>1. DropOf(r) \in Messages /\ "clearing" \in Steps /\ "dropping" \in Steps
      BY MessageTypes DEF Steps
    <2>2. reply' \in [Requests -> Replies] /\ api' \in Seq(Messages) /\ pc' \in [Requests -> Steps]
      BY <1>1, <2>1, AskNextType DEF Starts
    <2>3. QED
      BY <1>1, <2>2 DEF Starts, TypeOK
  <1>2. CASE Dropped(r)
    <2>1. Message("Len", KindOf(r), r) \in Messages /\ "len" \in Steps
      BY MessageTypes DEF Steps
    <2>2. reply' \in [Requests -> Replies] /\ api' \in Seq(Messages) /\ pc' \in [Requests -> Steps]
      BY <1>2, <2>1, AskNextType DEF Dropped
    <2>3. QED
      BY <1>2, <2>2 DEF Dropped, TypeOK
  <1>3. CASE NotDropped(r)
    <2>1. (IF attempts[r] = Attempts THEN "failed" ELSE "retry") \in Steps
      BY DEF Steps
    <2>2. reply' \in [Requests -> Replies] /\ api' = api /\ pc' \in [Requests -> Steps]
      BY <1>3, <2>1, EndsType DEF NotDropped
    <2>3. QED
      BY <1>3, <2>2 DEF NotDropped, TypeOK
  <1>4. CASE DropsAgain(r)
    <2>1. DropOf(r) \in Messages /\ "dropping" \in Steps
      BY MessageTypes DEF Steps
    <2>2. reply' \in [Requests -> Replies] /\ api' \in Seq(Messages) /\ pc' \in [Requests -> Steps]
      BY <1>4, <2>1, AskNextType DEF DropsAgain
    <2>3. QED
      BY <1>4, <2>2 DEF DropsAgain, TypeOK
  <1>5. CASE LenKnown(r)
    <2>1. Message("Get", KindOf(r), r) \in Messages /\ "get" \in Steps
      BY MessageTypes DEF Steps
    <2>2. reply' \in [Requests -> Replies] /\ api' \in Seq(Messages) /\ pc' \in [Requests -> Steps]
      BY <1>5, <2>1, AskNextType DEF LenKnown
    <2>3. reply[r].n \in Nat
      BY DEF TypeOK, Replies
    <2>4. QED
      BY <1>5, <2>2, <2>3 DEF LenKnown, TypeOK
  <1>6. CASE SearchSpawned(r)
    <2>1. "search" \in Steps /\ reply[r].holder \in Holders
      BY DEF Steps, TypeOK, Replies
    <2>2. reply' \in [Requests -> Replies] /\ api' = api /\ pc' \in [Requests -> Steps]
      BY <1>6, <2>1, EndsType DEF SearchSpawned
    <2>3. [reply[r].holder EXCEPT !.by = r] \in Holders
      BY <2>1 DEF Holders
    <2>4. QED
      BY <1>6, <2>2, <2>3 DEF SearchSpawned, TypeOK
  <1>7. CASE PutsBack(r)
    <2> DEFINE h == IF Asked(r) = "nofilters" THEN [reply[r].holder EXCEPT !.by = None]
                                              ELSE reply[r].holder
    <2>1. reply[r].holder \in Holders
      BY DEF TypeOK, Replies
    <2>2. h \in Holders /\ "putBack" \in Steps
      BY <2>1 DEF Holders, Steps
    <2>3. Giving(r, h) \in Messages /\ AskNext(r, "get", "ok", Giving(r, h), "putBack")
      BY <1>7, <2>2, MessageTypes DEF PutsBack
    <2>4. reply' \in [Requests -> Replies] /\ api' \in Seq(Messages) /\ pc' \in [Requests -> Steps]
      BY <2>2, <2>3, AskNextType
    <2>5. QED
      BY <1>7, <2>4 DEF PutsBack, TypeOK
  <1>8. CASE ResultTaken(r)
    <2>1. /\ Giving(r, held[r]) \in Messages /\ GivingNothing(r) \in Messages
          /\ "put" \in Steps /\ "fail" \in Steps
      BY MessageTypes DEF Steps, TypeOK
    <2>2. reply' \in [Requests -> Replies] /\ api' \in Seq(Messages) /\ pc' \in [Requests -> Steps]
      BY <1>8, <2>1, AskNextType DEF ResultTaken
    <2>3. QED
      BY <1>8, <2>2 DEF ResultTaken, TypeOK
  <1>9. CASE Ticks(r)
    <2> DEFINE cmd == IF KindOf(r) = "regular" THEN "Clear" ELSE "Drop"
    <2>1. Message(cmd, KindOf(r), r) \in Messages /\ "tick" \in Steps
      BY MessageTypes DEF Steps
    <2>2. AskNext(r, "search", "none", Message(cmd, KindOf(r), r), "tick")
      BY <1>9 DEF Ticks
    <2>3. reply' \in [Requests -> Replies] /\ api' \in Seq(Messages) /\ pc' \in [Requests -> Steps]
      BY <2>1, <2>2, AskNextType
    <2>4. QED
      BY <1>9, <2>3 DEF Ticks, TypeOK
  <1>10. CASE TickAnswered(r)
    <2>1. "search" \in Steps
      BY DEF Steps
    <2>2. reply' \in [Requests -> Replies] /\ api' = api /\ pc' \in [Requests -> Steps]
      BY <1>10, <2>1, EndsType DEF TickAnswered
    <2>3. QED
      BY <1>10, <2>2 DEF TickAnswered, TypeOK
  <1>11. CASE CancelSeen(r)
    <2>1. /\ Orphan(api, r) \in Seq(Messages) /\ Orphan(requests, r) \in Seq(Messages)
          /\ Orphan(outbox, r) \in Seq(Messages)
      BY OrphanType DEF TypeOK
    <2>2. Append(Orphan(api, r), GivingNothing(r)) \in Seq(Messages)
      BY <2>1, MessageTypes, AppendProperties
    <2>3. [serving EXCEPT !.from = None] \in Messages
      BY DEF TypeOK, Messages
    <2>4. pc' \in [Requests -> Steps] /\ reply' \in [Requests -> Replies]
      BY <1>11, MessageTypes DEF CancelSeen, TypeOK, Steps
    <2>5. QED
      BY <1>11, <2>1, <2>2, <2>3, <2>4 DEF CancelSeen, TypeOK
  <1>12. CASE HolderReturned(r)
    <2>1. /\ DropOf(r) \in Messages /\ Message("Matches", KindOf(r), r) \in Messages
          /\ "show" \in Steps /\ "failDrop" \in Steps /\ "cancelDrop" \in Steps
      BY MessageTypes DEF Steps
    <2>2. reply' \in [Requests -> Replies] /\ api' \in Seq(Messages) /\ pc' \in [Requests -> Steps]
      BY <1>12, <2>1, AskNextType DEF HolderReturned
    <2>3. QED
      BY <1>12, <2>2 DEF HolderReturned, TypeOK
  <1>13. CASE TaskEnds(r)
    <2>1. /\ api' = api /\ reply' = [reply EXCEPT ![r] = NoReply]
          /\ \/ pc' = [pc EXCEPT ![r] = "done"]
             \/ pc' = [pc EXCEPT ![r] = "failed"]
      BY <1>13 DEF TaskEnds, Ends
    <2>2. reply' \in [Requests -> Replies] /\ api' = api /\ pc' \in [Requests -> Steps]
      BY <2>1, MessageTypes DEF Steps, TypeOK
    <2>3. QED
      BY <1>13, <2>2 DEF TaskEnds, TypeOK
  <1>14. QED
    BY <1>1, <1>2, <1>3, <1>4, <1>5, <1>6, <1>7, <1>8, <1>9, <1>10, <1>11, <1>12, <1>13 DEF Task

LEMMA BackgroundType ==
    ASSUME TypeOK, NEW r \in Requests, BackgroundEnds(r), UNCHANGED plan
    PROVE  TypeOK'
  <1> DEFINE h == held[r]
             n == target[r]
  <1>1. h \in Holders /\ n \in Nat /\ h.upTo \in Nat
    BY DEF TypeOK, Holders
  <1>2. ~Idles(h, n) => FoundBy(h, n) \in Seq(Matches) /\ Advanced(h, n) \in Holders
    <2> HAVE ~Idles(h, n)
    <2>1. h.by # None /\ n >= h.upTo
      BY <1>1 DEF Idles
    <2>2. QED
      BY <1>1, <2>1, FoundByType
  <1>3. held' \in [Requests -> Holders] /\ found' \in [Requests -> Seq(Matches)]
    BY <1>2 DEF BackgroundEnds, TypeOK
  <1>4. background' \in [Requests -> {"none", "running", "found", "error", "gone"}]
    BY DEF BackgroundEnds, TypeOK
  <1>5. QED
    BY <1>3, <1>4 DEF BackgroundEnds, TypeOK, Elsewhere, loopVars, searchVars, viewVars, fileVars

LEMMA HeadMessage ==
    ASSUME NEW S, NEW q \in Seq(S), q # <<>>
    PROVE  /\ Head(q) \in S /\ Tail(q) \in Seq(S)
           /\ 1 \in DOMAIN q /\ Head(q) = q[1]
  BY HeadTailProperties, LenProperties, EmptySeq

\* The three channels within the line.
LEMMA InLine ==
    ASSUME TypeOK
    PROVE  /\ Line \in Seq(Messages) /\ DOMAIN Line = 1..Len(Line)
           /\ Len(requests) \in Nat /\ Len(outbox) \in Nat /\ Len(api) \in Nat
           /\ Len(Line) = Len(requests) + Len(outbox) + Len(api)
           /\ \A i \in 1..Len(requests) : Line[i] = requests[i]
           /\ \A i \in 1..Len(outbox) : Line[Len(requests) + i] = outbox[i]
           /\ \A i \in 1..Len(api) : Line[Len(requests) + Len(outbox) + i] = api[i]
  <1>1. requests \in Seq(Messages) /\ outbox \in Seq(Messages) /\ api \in Seq(Messages)
    BY DEF TypeOK
  <1>2. QED
    BY <1>1, Joined, LenProperties DEF Line

\* The message that is taken next is sound.
LEMMA HeadOfLine ==
    ASSUME TypeOK, LineInv
    PROVE  /\ api # <<>> => Sound(Head(api))
           /\ requests # <<>> => Sound(Head(requests))
  <1>1. ASSUME api # <<>> PROVE Sound(Head(api))
    <2>1. 1 \in 1..Len(api) /\ Head(api) = api[1]
      BY <1>1, HeadMessage, LenProperties DEF TypeOK
    <2>2. /\ Line[Len(requests) + Len(outbox) + 1] = Head(api)
          /\ Len(requests) + Len(outbox) + 1 \in DOMAIN Line
      BY <2>1, InLine
    <2>3. QED
      BY <2>2 DEF LineInv
  <1>2. ASSUME requests # <<>> PROVE Sound(Head(requests))
    <2>1. 1 \in 1..Len(requests) /\ Head(requests) = requests[1]
      BY <1>2, HeadMessage, LenProperties DEF TypeOK
    <2>2. Line[1] = Head(requests) /\ 1 \in DOMAIN Line
      BY <2>1, InLine
    <2>3. QED
      BY <2>2 DEF LineInv
  <1>3. QED
    BY <1>1, <1>2

\* So do the steps of the state loop, ...
LEMMA StateType ==
    ASSUME TypeOK, LineInv, State, UNCHANGED plan
    PROVE  TypeOK'
  <1> USE DEF loopVars, searchVars, viewVars, fileVars, taskVars, chanVars
  <1>1. ASSUME NEW cmd, Takes(cmd)
        PROVE  Head(api) \in Messages /\ api' \in Seq(Messages) /\ <<Head(api)>> \in Seq(Messages)
    <2>1. Head(api) \in Messages /\ Tail(api) \in Seq(Messages)
      BY <1>1, HeadMessage DEF Takes, TypeOK
    <2>2. QED
      BY <1>1, <2>1 DEF Takes
  <1>2. /\ Nothing \in Messages /\ NoReply \in Replies /\ Yes \in Replies /\ Lost \in Replies
        /\ <<>> \in Seq(Matches) /\ <<>> \in Seq(Messages)
    BY MessageTypes
  <1>3. CASE TakesWrite
    <2>1. Update("regular", rows') \in Messages /\ Update("values", rows') \in Messages
      BY <1>3, MessageTypes DEF TakesWrite, TypeOK, Kinds
    <2>2. outbox' \in Seq(Messages)
      BY <1>3, <2>1 DEF TakesWrite
    <2>3. QED
      BY <1>3, <1>1, <2>2 DEF TakesWrite, TypeOK
  <1>4. CASE TakesForward
    BY <1>4, <1>1 DEF TakesForward, TypeOK
  <1>5. CASE TakesLen
    <2>1. Reply("ok", NewHolder, rows) \in Replies
      BY MessageTypes DEF TypeOK
    <2>2. QED
      BY <1>5, <1>1, <2>1 DEF TakesLen, TypeOK
  <1>6. CASE TakesMatches
    <2>1. Head(api) \in Messages /\ api' \in Seq(Messages)
      BY <1>6, <1>1 DEF TakesMatches
    <2>2. Head(api).from \in Requests
      <3>1. Head(api).cmd = "Matches" /\ api # <<>>
        BY <1>6 DEF TakesMatches, Takes
      <3>2. Sound(Head(api))
        BY <3>1, HeadOfLine
      <3>3. QED
        BY <2>1, <3>1, <3>2 DEF Sound, Messages
    <2>3. QED
      BY <1>6, <1>2, <2>1, <2>2 DEF TakesMatches, TypeOK
  <1>7. CASE TakesClear
    <2>1. matches' \in [Kinds -> Seq(Matches)]
      BY <1>7, <1>2 DEF TakesClear, TypeOK
    <2>2. QED
      BY <1>7, <1>1, <1>2, <2>1 DEF TakesClear, TypeOK
  <1>8. CASE ClearUnheard
    BY <1>8, <1>2 DEF ClearUnheard, TypeOK
  <1>9. CASE SendsRequest
    <2>1. Head(outbox) \in Messages /\ Tail(outbox) \in Seq(Messages)
      BY <1>9, HeadMessage DEF SendsRequest, TypeOK
    <2>2. Append(requests, Head(outbox)) \in Seq(Messages)
      BY <2>1, AppendProperties DEF TypeOK
    <2>3. QED
      BY <1>9, <2>1, <2>2 DEF SendsRequest, TypeOK
  <1>10. CASE WriteServed
    BY <1>10, <1>2 DEF WriteServed, Returns, TypeOK
  <1>11. CASE SetForwarded
    BY <1>11, <1>2 DEF SetForwarded, Returns, TypeOK
  <1>12. CASE ValuesDropped
    <2>1. matches' \in [Kinds -> Seq(Matches)]
      BY <1>12, <1>2 DEF ValuesDropped, TypeOK
    <2>2. QED
      BY <1>12, <1>2, <2>1 DEF ValuesDropped, Returns, TypeOK
  <1>13. CASE DropServed
    <2>1. matches' \in [Kinds -> Seq(Matches)]
      BY <1>13, <1>2 DEF DropServed, TypeOK
    <2>2. reply' \in [Requests -> Replies]
      BY <1>13 DEF DropServed, TypeOK
    <2>3. QED
      BY <1>13, <1>2, <2>1, <2>2 DEF DropServed, Returns, TypeOK
  <1>14. CASE GetServed
    BY <1>14, <1>2 DEF GetServed, Returns, TypeOK
  <1>15. CASE TakesResponse
    <2> DEFINE Extensions == [kind : Kinds, matches : Seq(Matches)]
    <2>1. Head(responses) \in Extensions /\ Tail(responses) \in Seq(Extensions)
      BY <1>15, HeadMessage DEF TakesResponse, TypeOK
    <2>2. Head(responses).kind \in Kinds /\ Head(responses).matches \in Seq(Matches)
      BY <2>1
    <2>3. matches[Head(responses).kind] \o Head(responses).matches \in Seq(Matches)
      BY <2>2, ConcatProperties DEF TypeOK
    <2>4. matches' \in [Kinds -> Seq(Matches)]
      BY <1>15, <2>3 DEF TakesResponse, TypeOK
    <2>5. QED
      BY <1>15, <2>1, <2>4 DEF TakesResponse, TypeOK
  <1>16. QED
    BY <1>3, <1>4, <1>5, <1>6, <1>7, <1>8, <1>9, <1>10, <1>11, <1>12, <1>13, <1>14, <1>15
       DEF State

\* ... and those of the searchers.
LEMMA SearchersType ==
    ASSUME TypeOK, Searchers, UNCHANGED plan
    PROVE  TypeOK'
  <1> USE DEF loopVars, searchVars, viewVars, fileVars, taskVars, chanVars
  <1> DEFINE m == Head(requests)
  <1>1. ASSUME NEW cmd, Serves(cmd)
        PROVE  /\ m \in Messages /\ requests' \in Seq(Messages)
               /\ m.kind \in Kinds /\ m.holder \in Holders /\ m.upTo \in Nat
    <2>1. m \in Messages /\ Tail(requests) \in Seq(Messages)
      BY <1>1, HeadMessage DEF Serves, TypeOK
    <2>2. QED
      BY <1>1, <2>1 DEF Serves, Messages
  <1>2. NewHolder \in Holders /\ Yes \in Replies /\ No \in Replies
    BY MessageTypes
  <1>3. ASSUME NEW a \in Replies, Answers(m.from, a) PROVE reply' \in [Requests -> Replies]
    BY <1>3 DEF Answers, TypeOK
  <1>4. CASE SearchesOn
    <2> DEFINE k == m.kind
               n == m.upTo
               h == holder[k]
    <2>1. k \in Kinds /\ n \in Nat /\ requests' \in Seq(Messages)
      BY <1>1, <1>4 DEF SearchesOn
    <2>2. h \in Holders /\ h.upTo \in Nat
      BY <2>1 DEF TypeOK, Holders
    <2>3. ~Idles(h, n) => FoundBy(h, n) \in Seq(Matches) /\ Advanced(h, n) \in Holders
      <3> HAVE ~Idles(h, n)
      <3>1. h.by # None /\ n >= h.upTo
        BY <2>1, <2>2 DEF Idles
      <3>2. QED
        BY <2>1, <2>2, <3>1, FoundByType
    <2>4. \/ /\ ~Idles(h, n)
             /\ pending' = <<[kind |-> k, matches |-> FoundBy(h, n)]>>
             /\ holder' = [holder EXCEPT ![k] = Advanced(h, n)]
          \/ /\ pending' = <<[kind |-> k, matches |-> <<>>]>>
             /\ holder' = holder
      BY <1>4 DEF SearchesOn
    <2>5. <<>> \in Seq(Matches)
      OBVIOUS
    <2> HIDE DEF k, n, h
    <2>6. PICK f \in Seq(Matches) : pending' = <<[kind |-> k, matches |-> f]>>
      BY <2>3, <2>4, <2>5
    <2>7. [kind |-> k, matches |-> f] \in [kind : Kinds, matches : Seq(Matches)]
      BY <2>1
    <2>8. pending' \in Seq([kind : Kinds, matches : Seq(Matches)])
      BY <2>6, <2>7
    <2>9. holder' \in [Kinds -> Holders]
      BY <2>1, <2>3, <2>4 DEF TypeOK
    <2>10. QED
      BY <1>4, <2>1, <2>8, <2>9 DEF SearchesOn, TypeOK
  <1>5. CASE SkipsUpdate
    BY <1>1, <1>5 DEF SkipsUpdate, TypeOK
  <1>6. CASE Responds
    <2>1. responses \o pending \in Seq([kind : Kinds, matches : Seq(Matches)])
      BY ConcatProperties DEF TypeOK
    <2>2. QED
      BY <1>6, <2>1 DEF Responds, TypeOK
  <1>7. CASE LendsHolder
    <2>1. m.kind \in Kinds /\ requests' \in Seq(Messages)
      BY <1>1, <1>7 DEF LendsHolder
    <2>2. Reply("ok", holder[m.kind], 0) \in Replies
      BY <2>1, MessageTypes DEF TypeOK
    <2>3. QED
      BY <1>7, <1>2, <2>1, <2>2 DEF LendsHolder, TypeOK
  <1>8. CASE TakesHolderBack
    <2>1. m.kind \in Kinds /\ m.holder \in Holders /\ requests' \in Seq(Messages)
      BY <1>1, <1>8 DEF TakesHolderBack
    <2>2. reply' \in [Requests -> Replies]
      BY <1>2, <1>3, <1>8 DEF TakesHolderBack
    <2>3. /\ slot' \in [Kinds -> {"NotInited", "Available", "InUse"}]
          /\ holder' \in [Kinds -> Holders]
      BY <1>8, <2>1 DEF TakesHolderBack, TypeOK
    <2>4. QED
      BY <1>8, <2>1, <2>2, <2>3 DEF TakesHolderBack, TypeOK
  <1>9. CASE DropsHolder
    <2>1. m.kind \in Kinds /\ requests' \in Seq(Messages)
      BY <1>1, <1>9 DEF DropsHolder
    <2>2. reply' \in [Requests -> Replies] /\ answer' \in Replies
      BY <1>2, <1>3, <1>9 DEF DropsHolder, TypeOK
    <2>3. /\ slot' \in [Kinds -> {"NotInited", "Available", "InUse"}]
          /\ holder' \in [Kinds -> Holders]
      BY <1>2, <1>9, <2>1 DEF DropsHolder, TypeOK
    <2>4. QED
      BY <1>9, <2>1, <2>2, <2>3 DEF DropsHolder, TypeOK
  <1>10. QED
    BY <1>4, <1>5, <1>6, <1>7, <1>8, <1>9 DEF Searchers

LEMMA NextType ==
    ASSUME TypeOK, LineInv, [Next]_<<plan, vars>>
    PROVE  TypeOK'
  <1> USE DEF loopVars, searchVars, viewVars, fileVars, taskVars, chanVars
  <1>1. CASE UNCHANGED <<plan, vars>>
    BY <1>1 DEF TypeOK, vars
  <1>2. CASE Next
    <2>1. CASE \E r \in Requests : Task(r)
      BY <1>2, <2>1, TaskType DEF Next
    <2>2. CASE \E r \in Requests : BackgroundEnds(r)
      BY <1>2, <2>2, BackgroundType DEF Next
    <2>3. CASE \E r \in Requests : Cancelled(r)
      BY <1>2, <2>3 DEF Next, Cancelled, TypeOK, Elsewhere
    <2>4. CASE Produces
      <3>1. Append(api, Write) \in Seq(Messages)
        BY MessageTypes, AppendProperties DEF TypeOK
      <3>2. QED
        BY <1>2, <2>4, <3>1 DEF Next, Produces, TypeOK
    <2>5. CASE State
      BY <1>2, <2>5, StateType DEF Next
    <2>6. CASE Searchers
      BY <1>2, <2>6, SearchersType DEF Next
    <2>7. QED
      BY <1>2, <2>1, <2>2, <2>3, <2>4, <2>5, <2>6 DEF Next
  <1>3. QED
    BY <1>1, <1>2

-----------------------------------------------------------------------------
(* The line.                                                               *)

\* A line that is made of parts of the line before it, and of updates, is
\* sound when the senders in it have not gone on.
LEMMA LineKept ==
    ASSUME TypeOK, TypeOK', LineInv, plan' = plan, NEW f,
           \A i \in DOMAIN Line' :
              \/ Line'[i].from = None /\ Line'[i].cmd \in {"Write", "Search"}
              \/ f[i] \in DOMAIN Line /\ Line'[i] = Line[f[i]],
           \A i, j \in DOMAIN Line' :
              Line'[i].from # None /\ Line'[j].from # None /\ f[i] = f[j] => i = j,
           \A i \in DOMAIN Line' :
              Line'[i].from # None =>
                 /\ pc'[Line'[i].from] = pc[Line'[i].from]
                 /\ reply'[Line'[i].from] = reply[Line'[i].from]
    PROVE  LineInv'
  <1>1. ASSUME NEW i \in DOMAIN Line' PROVE Sound(Line[i])'
    <2>1. CASE Line'[i].from = None /\ Line'[i].cmd \in {"Write", "Search"}
      BY <2>1 DEF Sound, IsAnswered
    <2>2. CASE f[i] \in DOMAIN Line /\ Line'[i] = Line[f[i]]
      <3>1. Sound(Line[f[i]])
        BY <2>2 DEF LineInv
      <3>2. QED
        BY <2>2, <3>1 DEF Sound, Awaits, IsAnswered
    <2>3. QED
      BY <2>1, <2>2
  <1>2. ASSUME NEW i \in DOMAIN Line', NEW j \in DOMAIN Line',
               Line'[i].from = Line'[j].from, Line'[i].from # None
        PROVE  i = j
    <2>1. /\ f[i] \in DOMAIN Line /\ Line'[i] = Line[f[i]]
          /\ f[j] \in DOMAIN Line /\ Line'[j] = Line[f[j]]
      BY <1>2
    <2>2. f[i] = f[j]
      BY <1>2, <2>1 DEF LineInv
    <2>3. QED
      BY <1>2, <2>2
  <1>3. QED
    BY <1>1, <1>2 DEF LineInv

\* A request is taken out of the line.
LEMMA RequestTaken ==
    ASSUME TypeOK, LineInv, NEW cmd, Serves(cmd), UNCHANGED <<outbox, api>>
    PROVE  LET m == Head(requests) IN
           /\ m \in Messages /\ m.cmd = cmd /\ Sound(m)
           /\ 1 \in DOMAIN requests /\ requests[1] = m
           /\ 1 \in DOMAIN Line /\ Line[1] = m
           /\ \A i \in DOMAIN requests' :
                i \in Nat /\ i + 1 \in DOMAIN requests /\ requests'[i] = requests[i + 1]
           /\ \A i \in DOMAIN Line' :
                /\ i \in Nat /\ i + 1 \in DOMAIN Line /\ Line'[i] = Line[i + 1]
                /\ m.from # None => Line'[i].from # m.from
  <1> DEFINE m == Head(requests)
  <1>1. /\ requests \in Seq(Messages) /\ outbox \in Seq(Messages) /\ api \in Seq(Messages)
        /\ requests # <<>> /\ m.cmd = cmd /\ requests' = Tail(requests)
    BY DEF TypeOK, Serves
  <1>2. m \in Messages /\ Sound(m) /\ requests[1] = m /\ 1 \in DOMAIN requests
    BY <1>1, HeadMessage, HeadOfLine
  <1>3. /\ Line' \in Seq(Messages) /\ Len(Line) = Len(Line') + 1 /\ Len(Line') \in Nat
        /\ Line[1] = m /\ \A i \in 1..Len(Line') : Line'[i] = Line[i + 1]
    <2>1. Line = requests \o outbox \o api /\ Line' = Tail(requests) \o outbox \o api
      BY <1>1 DEF Line
    <2>2. /\ requests \in Seq(Messages) /\ outbox \in Seq(Messages) /\ api \in Seq(Messages)
          /\ requests # <<>>
      BY <1>1
    <2> DEFINE l == requests \o outbox \o api
               s == Tail(requests) \o outbox \o api
    <2>3. IsTail(s, l, Messages) /\ l[1] = Head(requests)
      BY <2>2, JoinedTail
    <2>4. Line = l /\ Line' = s
      BY <2>1
    <2> HIDE DEF l, s
    <2>5. QED
      BY <2>3, <2>4 DEF IsTail
  <1>4. DOMAIN Line = 1..Len(Line) /\ DOMAIN Line' = 1..Len(Line')
    BY <1>3, InLine, LenProperties
  <1>5. \A i \in DOMAIN requests' :
            i \in Nat /\ i + 1 \in DOMAIN requests /\ requests'[i] = requests[i + 1]
    <2>1. /\ Tail(requests) \in Seq(Messages) /\ Len(Tail(requests)) = Len(requests) - 1
          /\ \A i \in 1..Len(Tail(requests)) : Tail(requests)[i] = requests[i + 1]
          /\ Len(requests) \in Nat \ {0} /\ DOMAIN requests = 1..Len(requests)
          /\ DOMAIN Tail(requests) = 1..Len(Tail(requests))
      BY <1>1, HeadTailProperties, LenProperties, EmptySeq
    <2>2. QED
      BY <1>1, <2>1
  <1>6. 1 \in DOMAIN Line
    BY <1>3, <1>4
  <1>7. \A i \in DOMAIN Line' : i \in Nat /\ i + 1 \in DOMAIN Line /\ Line'[i] = Line[i + 1]
    BY <1>3, <1>4
  <1>8. ASSUME NEW i \in DOMAIN Line', m.from # None PROVE Line'[i].from # m.from
    <2>1. i + 1 # 1 /\ i + 1 \in DOMAIN Line /\ Line'[i] = Line[i + 1]
      BY <1>3, <1>4, <1>7
    <2>2. QED
      BY <1>3, <1>6, <1>8, <2>1 DEF LineInv
  <1>9. QED
    BY <1>1, <1>2, <1>3, <1>5, <1>6, <1>7, <1>8

\* The rest of the line is sound, if only the sender of the request goes on.
LEMMA RequestServed ==
    ASSUME TypeOK, TypeOK', LineInv, plan' = plan, NEW cmd, Serves(cmd),
           UNCHANGED <<outbox, api, pc>>,
           \A r \in Requests : r # Head(requests).from => reply'[r] = reply[r]
    PROVE  LineInv'
  <1> DEFINE f == [i \in DOMAIN Line' |-> i + 1]
  <1>1. \A i \in DOMAIN Line' :
            /\ f[i] \in DOMAIN Line /\ Line'[i] = Line[f[i]]
            /\ Head(requests).from # None => Line'[i].from # Head(requests).from
    BY RequestTaken
  <1>2. \A i, j \in DOMAIN Line' : f[i] = f[j] => i = j
    BY RequestTaken
  <1>3. ASSUME NEW i \in DOMAIN Line', Line'[i].from # None
        PROVE  reply'[Line'[i].from] = reply[Line'[i].from]
    <2>1. Line'[i] \in Messages
      BY <1>1, InLine, LenProperties
    <2>2. Line'[i].from \in Requests
      BY <1>3, <2>1 DEF Messages
    <2>3. Line'[i].from # Head(requests).from
      BY <1>1, <1>3
    <2>4. QED
      BY <2>2, <2>3
  <1> HIDE DEF f
  <1>4. QED
    BY <1>1, <1>2, <1>3, LineKept

LEMMA InLineIdle ==
    ASSUME TypeOK, outbox = <<>>
    PROVE  /\ DOMAIN Line = 1..Len(Line) /\ Len(Line) = Len(requests) + Len(api)
           /\ \A i \in 1..Len(requests) : Line[i] = requests[i]
           /\ \A i \in 1..Len(api) : Line[Len(requests) + i] = api[i]
  <1>1. Len(outbox) = 0
    BY EmptySeq
  <1>2. Len(requests) + Len(outbox) = Len(requests)
    BY <1>1, InLine
  <1>3. QED
    BY <1>1, <1>2, InLine

\* The state loop answers the message it takes.
LEMMA MessageAnswered ==
    ASSUME TypeOK, TypeOK', LineInv, plan' = plan, NEW cmd, Takes(cmd), outbox = <<>>,
           UNCHANGED <<outbox, requests, pc>>,
           \A r \in Requests : r # Head(api).from => reply'[r] = reply[r]
    PROVE  LineInv'
  <1> DEFINE m == Head(api)
             n == Len(requests)
             f == [i \in DOMAIN Line' |-> IF i <= n THEN i ELSE i + 1]
  <1>1. /\ requests \in Seq(Messages) /\ api \in Seq(Messages) /\ api # <<>>
        /\ n \in Nat /\ outbox' = <<>> /\ api' = Tail(api) /\ requests' = requests
        /\ m = api[1] /\ m \in Messages
        /\ Tail(api) \in Seq(Messages) /\ Len(Tail(api)) = Len(api) - 1
        /\ Len(api) \in Nat \ {0}
        /\ \A i \in 1..Len(Tail(api)) : Tail(api)[i] = api[i + 1]
    BY HeadTailProperties, LenProperties, EmptySeq DEF TypeOK, Takes
  <1>2. /\ DOMAIN Line = 1..Len(Line) /\ Len(Line) = n + Len(api)
        /\ \A i \in 1..n : Line[i] = requests[i]
        /\ \A i \in 1..Len(api) : Line[n + i] = api[i]
    BY InLineIdle
  <1>3. /\ Line' \in Seq(Messages) /\ DOMAIN Line' = 1..Len(Line') /\ Len(Line') = n + Len(Tail(api))
        /\ \A i \in 1..n : Line'[i] = requests[i]
        /\ \A i \in 1..Len(Tail(api)) : Line'[n + i] = Tail(api)[i]
    <2>1. <<>> \in Seq(Messages) /\ Len(<<>>) = 0
      OBVIOUS
    <2>2. Line' = requests \o <<>> \o Tail(api)
      BY <1>1 DEF Line
    <2>3. QED
      BY <1>1, <2>1, <2>2, Joined, LenProperties
  <1>4. Line[n + 1] = m /\ n + 1 \in DOMAIN Line
    BY <1>1, <1>2
  <1>5. ASSUME NEW i \in DOMAIN Line'
        PROVE  f[i] \in DOMAIN Line /\ f[i] # n + 1 /\ Line'[i] = Line[f[i]]
    <2>1. CASE i <= n
      BY <1>1, <1>2, <1>3, <2>1
    <2>2. CASE ~(i <= n)
      <3> DEFINE j == i - n
      <3>1. j \in 1..Len(Tail(api)) /\ j + 1 \in 1..Len(api) /\ i = n + j /\ i + 1 = n + (j + 1)
        BY <1>1, <1>3, <2>2
      <3> HIDE DEF j
      <3>2. Line'[n + j] = Tail(api)[j] /\ Line[n + (j + 1)] = api[j + 1]
        BY <1>2, <1>3, <3>1
      <3>3. Line'[i] = Line[i + 1]
        BY <1>1, <3>1, <3>2
      <3>4. QED
        BY <1>1, <1>2, <1>3, <2>2, <3>1, <3>3
    <2>3. QED
      BY <2>1, <2>2
  <1>6. \A i, j \in DOMAIN Line' : f[i] = f[j] => i = j
    BY <1>1, <1>3
  <1>7. ASSUME NEW i \in DOMAIN Line', Line'[i].from # None
        PROVE  reply'[Line'[i].from] = reply[Line'[i].from]
    <2>1. Line'[i].from # m.from
      BY <1>4, <1>5, <1>7 DEF LineInv
    <2>2. Line'[i] \in Messages
      BY <1>3, LenProperties
    <2>3. QED
      BY <1>7, <2>1, <2>2 DEF Messages
  <1> HIDE DEF f
  <1>8. QED
    BY <1>5, <1>6, <1>7, LineKept

\* It passes the message on, ...
LEMMA LineForwarded ==
    ASSUME TypeOK, TypeOK', LineInv, TakesForward, outbox = <<>>, plan' = plan
    PROVE  Line' = Line /\ LineInv'
  <1>1. /\ requests \in Seq(Messages) /\ api \in Seq(Messages) /\ api # <<>>
        /\ outbox' = <<Head(api)>> /\ api' = Tail(api) /\ requests' = requests
    BY DEF TypeOK, TakesForward, Takes, chanVars
  <1>2. Append(<<>>, Head(api)) = <<Head(api)>>
    OBVIOUS
  <1>3. /\ Head(api) \in Messages /\ Tail(api) \in Seq(Messages) /\ <<>> \in Seq(Messages)
        /\ <<Head(api)>> \in Seq(Messages)
    BY <1>1, HeadTailProperties
  <1>4. <<Head(api)>> \o Tail(api) = api
    <2>1. Append(<<>>, Head(api)) \o Tail(api) \o <<>> = <<>> \o api \o <<>>
      BY <1>1, <1>3, JoinedMove
    <2>2. <<>> \o api = api /\ api \o <<>> = api
      BY <1>1, ConcatEmptySeq
    <2>3. <<Head(api)>> \o Tail(api) \in Seq(Messages)
      BY <1>3, ConcatProperties
    <2>4. (<<Head(api)>> \o Tail(api)) \o <<>> = <<Head(api)>> \o Tail(api)
      BY <2>3, ConcatEmptySeq
    <2>5. QED
      BY <1>2, <2>1, <2>2, <2>4
  <1>5. requests \o <<>> = requests
    BY <1>1, ConcatEmptySeq
  <1>6. (requests \o <<Head(api)>>) \o Tail(api) = requests \o (<<Head(api)>> \o Tail(api))
    BY <1>1, <1>3, ConcatAssociative
  <1>7. Line' = Line
    BY <1>1, <1>4, <1>5, <1>6 DEF Line
  <1>8. LineInv'
    <2>1. UNCHANGED <<pc, reply, plan>>
      BY DEF TakesForward, taskVars
    <2>2. QED
      BY <1>7, <2>1 DEF LineInv, Sound, Awaits
  <1>9. QED
    BY <1>7, <1>8

\* ... or puts two updates in the place of a write.
LEMMA LineUpdated ==
    ASSUME TypeOK, TypeOK', LineInv, TakesWrite, outbox = <<>>, plan' = plan
    PROVE  LineInv'
  <1> DEFINE n == Len(requests)
             u == Update("regular", rows')
             v == Update("values", rows')
             uv == <<u, v>>
             t == Tail(api)
             f == [i \in DOMAIN Line' |-> IF i <= n THEN i ELSE i - 1]
  <1>1. /\ requests \in Seq(Messages) /\ api \in Seq(Messages) /\ api # <<>>
        /\ outbox' = uv /\ api' = t /\ requests' = requests
        /\ n \in Nat /\ Len(api) \in Nat \ {0}
        /\ t \in Seq(Messages) /\ Len(t) = Len(api) - 1
        /\ \A i \in 1..Len(t) : t[i] = api[i + 1]
    BY HeadTailProperties, LenProperties, EmptySeq DEF TypeOK, TakesWrite, Takes, chanVars
  <1>2. /\ u \in Messages /\ v \in Messages
        /\ u.from = None /\ u.cmd = "Search" /\ v.from = None /\ v.cmd = "Search"
    <2>1. rows' \in Nat /\ "regular" \in Kinds /\ "values" \in Kinds
      BY DEF TypeOK, Kinds
    <2>2. QED
      BY <2>1, MessageTypes, MessageParts
  <1> HIDE DEF u, v, t
  <1>3. uv \in Seq(Messages) /\ Len(uv) = 2 /\ uv[1] = u /\ uv[2] = v
    BY <1>2
  <1> HIDE DEF uv
  <1>4. Line' = requests \o uv \o t
    BY <1>1 DEF Line
  <1>5. /\ Line' \in Seq(Messages) /\ DOMAIN Line' = 1..Len(Line') /\ Len(Line') = n + 2 + Len(t)
        /\ \A i \in 1..n : Line'[i] = requests[i]
        /\ \A i \in 1..2 : Line'[n + i] = uv[i]
        /\ \A i \in 1..Len(t) : Line'[n + 2 + i] = t[i]
    <2>1. /\ Line' \in Seq(Messages) /\ Len(Line') = n + Len(uv) + Len(t)
          /\ \A i \in 1..n : Line'[i] = requests[i]
          /\ \A i \in 1..Len(uv) : Line'[n + i] = uv[i]
          /\ \A i \in 1..Len(t) : Line'[n + Len(uv) + i] = t[i]
      <3> DEFINE l == requests \o uv \o t
      <3>1. /\ l \in Seq(Messages) /\ Len(l) = Len(requests) + Len(uv) + Len(t)
            /\ \A i \in 1..Len(requests) : l[i] = requests[i]
            /\ \A i \in 1..Len(uv) : l[Len(requests) + i] = uv[i]
            /\ \A i \in 1..Len(t) : l[Len(requests) + Len(uv) + i] = t[i]
        <4>1. requests \in Seq(Messages) /\ uv \in Seq(Messages) /\ t \in Seq(Messages)
          BY <1>1, <1>3
        <4>2. QED
          BY <4>1, Joined
      <3>2. QED
        BY <1>4, <3>1
    <2>2. DOMAIN Line' = 1..Len(Line')
      BY <2>1, LenProperties
    <2>3. QED
      BY <1>3, <2>1, <2>2
  <1>6. /\ DOMAIN Line = 1..Len(Line) /\ Len(Line) = n + Len(api)
        /\ \A i \in 1..n : Line[i] = requests[i]
        /\ \A i \in 1..Len(api) : Line[n + i] = api[i]
    BY InLineIdle
  <1> DEFINE len == Len(t)
  <1>61. len \in Nat /\ Len(api) = len + 1 /\ len = Len(t)
    BY <1>1
  <1> HIDE DEF n, len
  <1>7. ASSUME NEW i \in DOMAIN Line'
        PROVE  \/ Line'[i].from = None /\ Line'[i].cmd = "Search" /\ i \in {n + 1, n + 2}
               \/ /\ f[i] \in DOMAIN Line /\ Line'[i] = Line[f[i]]
                  /\ i <= n \/ i > n + 2
    <2>1. CASE i <= n
      <3>1. i \in 1..n
        BY <1>1, <1>5, <2>1
      <3>2. Line'[i] = requests[i] /\ Line[i] = requests[i] /\ f[i] = i
        BY <1>5, <1>6, <2>1, <3>1
      <3>3. i \in DOMAIN Line
        BY <1>1, <1>6, <3>1
      <3>4. QED
        BY <2>1, <3>2, <3>3
    <2>2. CASE i \in {n + 1, n + 2}
      <3>1. Line'[n + 1] = u /\ Line'[n + 2] = v
        BY <1>1, <1>3, <1>5
      <3>2. QED
        BY <1>2, <2>2, <3>1
    <2>3. CASE i > n + 2
      <3> DEFINE j == i - (n + 2)
      <3>1. i \in Nat /\ i <= n + 2 + len /\ n \in Nat
        BY <1>1, <1>61, <1>5
      <3>2. /\ j \in 1..len /\ j + 1 \in 1..len + 1 /\ i = n + 2 + j
            /\ i - 1 = n + (j + 1)
        BY <1>61, <2>3, <3>1
      <3> HIDE DEF j
      <3>3. Line'[n + 2 + j] = t[j] /\ Line[n + (j + 1)] = api[j + 1] /\ t[j] = api[j + 1]
        BY <1>1, <1>61, <1>5, <1>6, <3>2
      <3>4. Line'[i] = Line[i - 1]
        BY <3>2, <3>3
      <3>5. QED
        BY <1>61, <1>5, <1>6, <2>3, <3>1, <3>2, <3>4
    <2>4. i <= n \/ i \in {n + 1, n + 2} \/ i > n + 2
      <3>1. i \in Nat /\ n \in Nat
        BY <1>1, <1>5
      <3>2. QED
        BY <3>1
    <2>5. QED
      BY <2>1, <2>2, <2>3, <2>4
  <1>8. ASSUME NEW i \in DOMAIN Line', NEW j \in DOMAIN Line',
               Line'[i].from # None, Line'[j].from # None, f[i] = f[j]
        PROVE  i = j
    <2>1. (i <= n \/ i > n + 2) /\ (j <= n \/ j > n + 2)
      BY <1>7, <1>8
    <2>2. QED
      BY <1>1, <1>5, <1>8, <2>1
  <1> HIDE DEF f
  <1>9. UNCHANGED <<pc, reply>>
    BY DEF TakesWrite, taskVars
  <1>10. QED
    BY <1>7, <1>8, <1>9, LineKept

-----------------------------------------------------------------------------
(* The steps of the commands.                                              *)

\* A command that is about to send, or has its answer, has no message on its
\* way.
LEMMA NoMessage ==
    ASSUME TypeOK, LineInv, ServiceInv, NEW r \in Requests,
           reply[r] # NoReply \/ pc[r] \in {"new", "retry", "search", "done", "failed"}
    PROVE  /\ \A i \in DOMAIN Line : Line[i].from # r
           /\ IsAnswered(serving) => serving.from # r
  <1>1. r # None
    BY ConstantsAssumption
  <1>2. ASSUME NEW m, Sound(m) PROVE m.from # r
    BY <1>1, <1>2 DEF Sound, Awaits
  <1>3. QED
    BY <1>2 DEF LineInv, ServiceInv

\* The state loop does not notice that such a command goes on.
LEMMA ServiceKept ==
    ASSUME TypeOK, ServiceInv, NEW r \in Requests, IsAnswered(serving) => serving.from # r,
           \A q \in Requests \ {r} : pc'[q] = pc[q] /\ reply'[q] = reply[q],
           \A i \in DOMAIN Line' :
              Line'[i].from \in {r, None} \/ (i \in DOMAIN Line /\ Line'[i] = Line[i]),
           stateLoop = "failed" => api' = api,
           UNCHANGED <<plan, requests, outbox, serving, answer, stateLoop>>
    PROVE  ServiceInv'
  <1>1. ASSUME IsAnswered(serving)
        PROVE  /\ Sound(serving)'
               /\ answer # NoReply => \A i \in DOMAIN Line' : Line'[i].from # serving.from
    <2>1. /\ Sound(serving) /\ serving.from # r /\ serving.from # None
          /\ serving.from \in Requests
      BY <1>1 DEF ServiceInv, Sound, TypeOK, Messages
    <2>2. Sound(serving)'
      BY <2>1 DEF Sound, Awaits, IsAnswered
    <2>3. answer # NoReply => \A i \in DOMAIN Line' : Line'[i].from # serving.from
      BY <1>1, <2>1 DEF ServiceInv
    <2>4. QED
      BY <2>2, <2>3
  <1>2. QED
    BY <1>1 DEF ServiceInv, IsAnswered

\* It sends a message and waits, ...
LEMMA TaskSends ==
    ASSUME TypeOK, TypeOK', LineInv, ServiceInv, NEW r \in Requests,
           reply[r] # NoReply \/ pc[r] \in {"new", "retry", "search", "done", "failed"},
           NEW m \in Messages, NEW to \in Steps, Ask(r, m), pc' = [pc EXCEPT ![r] = to],
           m.from = r, m.kind = plan.kind, Awaits(to, m.cmd),
           UNCHANGED <<plan, requests, outbox, serving, answer, stateLoop>>
    PROVE  LineInv' /\ ServiceInv'
  <1>1. /\ \A i \in DOMAIN Line : Line[i].from # r
        /\ IsAnswered(serving) => serving.from # r
    BY NoMessage
  <1>2. /\ pc'[r] = to
        /\ \A q \in Requests \ {r} : pc'[q] = pc[q] /\ reply'[q] = reply[q]
        /\ stateLoop # "failed" => reply'[r] = NoReply
        /\ stateLoop = "failed" => api' = api
    BY DEF Ask, TypeOK
  <1>3. r # None
    BY ConstantsAssumption
  <1>4. \A i \in DOMAIN Line' :
           \/ i \in DOMAIN Line /\ Line'[i] = Line[i]
           \/ stateLoop # "failed" /\ i = Len(Line) + 1 /\ Line'[i] = m
    <2>1. CASE stateLoop = "failed"
      <3>1. Line' = Line
        BY <1>2, <2>1 DEF Line
      <3>2. QED
        BY <3>1
    <2>2. CASE stateLoop # "failed"
      <3>1. Line \in Seq(Messages) /\ Line' = Append(Line, m)
        <4>1. /\ requests \in Seq(Messages) /\ outbox \in Seq(Messages) /\ api \in Seq(Messages)
              /\ requests' = requests /\ outbox' = outbox /\ api' = Append(api, m)
          BY <2>2 DEF Ask, TypeOK
        <4>2. requests \o outbox \o Append(api, m) = Append(requests \o outbox \o api, m)
          BY <4>1, JoinedAppend
        <4>3. QED
          BY <4>1, <4>2, InLine DEF Line
      <3>2. QED
        BY <2>2, <3>1, AppendProperties, LenProperties
    <2>3. QED
      BY <2>1, <2>2
  <1>5. ASSUME NEW i \in DOMAIN Line' PROVE Sound(Line[i])'
    <2>1. CASE i \in DOMAIN Line /\ Line'[i] = Line[i]
      <3>1. Sound(Line[i]) /\ Line[i].from # r /\ Line[i] \in Messages
        BY <1>1, <2>1, InLine, LenProperties DEF LineInv
      <3>2. QED
        BY <1>2, <2>1, <3>1 DEF Sound, Awaits, IsAnswered, Messages
    <2>2. CASE stateLoop # "failed" /\ Line'[i] = m
      BY <1>2, <1>3, <2>2 DEF Sound, Awaits
    <2>3. QED
      BY <1>4, <2>1, <2>2
  <1>6. ASSUME NEW i \in DOMAIN Line', NEW j \in DOMAIN Line',
               Line'[i].from = Line'[j].from, Line'[i].from # None
        PROVE  i = j
    BY <1>1, <1>4, <1>6 DEF LineInv
  <1>7. LineInv'
    BY <1>5, <1>6 DEF LineInv
  <1>8. ServiceInv'
    BY <1>1, <1>2, <1>4, ServiceKept
  <1>9. QED
    BY <1>7, <1>8

\* ... or goes on without one.
LEMMA TaskGoesOn ==
    ASSUME TypeOK, TypeOK', LineInv, ServiceInv, NEW r \in Requests,
           reply[r] # NoReply \/ pc[r] \in {"new", "retry", "search", "done", "failed"},
           \A q \in Requests \ {r} : pc'[q] = pc[q] /\ reply'[q] = reply[q],
           UNCHANGED <<plan, requests, outbox, api, serving, answer, stateLoop>>
    PROVE  LineInv' /\ ServiceInv'
  <1>1. /\ \A i \in DOMAIN Line : Line[i].from # r
        /\ IsAnswered(serving) => serving.from # r
    BY NoMessage
  <1>2. Line' = Line
    BY DEF Line
  <1>3. LineInv'
    <2> DEFINE f == [i \in DOMAIN Line' |-> i]
    <2>1. \A i \in DOMAIN Line' : f[i] = i
      OBVIOUS
    <2>2. ASSUME NEW i \in DOMAIN Line', Line'[i].from # None
          PROVE  pc'[Line'[i].from] = pc[Line'[i].from] /\ reply'[Line'[i].from] = reply[Line'[i].from]
      <3>1. Line'[i].from # r /\ Line'[i] \in Messages
        BY <1>1, <1>2, InLine, LenProperties
      <3>2. QED
        BY <2>2, <3>1 DEF Messages
    <2> HIDE DEF f
    <2>3. QED
      BY <1>2, <2>1, <2>2, LineKept
  <1>4. ServiceInv'
    BY <1>1, <1>2, ServiceKept
  <1>5. QED
    BY <1>3, <1>4

\* Who borrows the holder is settled as before, unless the state loop ended.
LEMMA OwnerKept ==
    ASSUME OwnerInv, NEW r \in Requests,
           \A q \in Requests \ {r} : Borrows(q)' <=> Borrows(q),
           Borrows(r)' => Borrows(r),
           stateLoop # "failed" /\ Borrows(r) => Borrows(r)',
           UNCHANGED <<plan, slot, holder, stateLoop>>
    PROVE  OwnerInv'
  <1>1. \A q \in Requests : Borrows(q)' => Borrows(q)
    OBVIOUS
  <1>2. stateLoop # "failed" => \A q \in Requests : Borrows(q) => Borrows(q)'
    OBVIOUS
  <1> DEFINE B(q) == Borrows(q)
  <1>3. QED
    BY <1>1, <1>2 DEF OwnerInv

LEMMA OthersBorrow ==
    ASSUME TypeOK, NEW r \in Requests, UNCHANGED <<serving, answer>>,
           \A q \in Requests \ {r} : pc'[q] = pc[q] /\ reply'[q] = reply[q]
    PROVE  \A q \in Requests \ {r} : Borrows(q)' <=> Borrows(q)
  BY DEF Borrows

\* A command that asks, or goes on without asking, keeps the invariant when
\* it borrows the holder as before.
LEMMA AskKeeps ==
    ASSUME IInv, TypeOK', NEW r \in Requests, NEW from, NEW status, NEW m \in Messages,
           NEW to \in Steps, AskNext(r, from, status, m, to),
           status # "none" \/ from \in {"new", "retry", "search"},
           m.from = r, m.kind = plan.kind, Awaits(to, m.cmd),
           from # "tick", to # "cancel",
           UNCHANGED <<plan, requests, Elsewhere>>,
           from \in {"search"} \/ (from = "get" /\ status = "ok") <=>
              to \in {"tick", "putBack", "put", "fail"}
    PROVE  IInv' /\ NobodyBorrows
  <1> USE DEF Elsewhere, loopVars, searchVars
  <1>1. /\ pc[r] = from /\ reply[r].status = status
        /\ pc' = [pc EXCEPT ![r] = to] /\ Ask(r, m)
    BY DEF AskNext
  <1>2. reply[r] # NoReply \/ from \in {"new", "retry", "search"}
    BY <1>1 DEF NoReply, Reply
  <1>3. LineInv' /\ ServiceInv'
    BY <1>1, <1>2, TaskSends DEF IInv
  <1>4. /\ pc'[r] = to
        /\ \A q \in Requests \ {r} : pc'[q] = pc[q] /\ reply'[q] = reply[q]
        /\ reply'[r] = (IF stateLoop = "failed" THEN Lost ELSE NoReply)
    BY <1>1 DEF Ask, IInv, TypeOK
  <1>5. ReplyInv'
    BY <1>4 DEF ReplyInv, IInv, Lost, NoReply, Reply
  <1>6. IsAnswered(serving) => serving.from # r
    BY <1>1, <1>2, NoMessage DEF IInv
  <1>7. Borrows(r) <=> from = "search" \/ (from = "get" /\ status = "ok")
    <2>1. Borrows(r) <=>
             \/ pc[r] = "get" /\ reply[r].status = "ok"
             \/ pc[r] \in {"search", "tick"}
             \/ pc[r] \in {"put", "putBack", "fail", "cancel"} /\ reply[r] = NoReply
      BY <1>6 DEF Borrows, IsAnswered
    <2>2. QED
      BY <1>1, <1>2, <2>1 DEF NoReply, Reply
  <1>8. Borrows(r)' => to \in {"tick", "putBack", "put", "fail"}
    BY <1>4, <1>6 DEF Borrows, Awaits, IsAnswered, Lost, NoReply, Reply
  <1>9. to \in {"tick", "putBack", "put", "fail"} /\ stateLoop # "failed" => Borrows(r)'
    BY <1>4 DEF Borrows
  <1>10. \A q \in Requests \ {r} : Borrows(q)' <=> Borrows(q)
    BY <1>4, OthersBorrow DEF IInv
  <1>11. OwnerInv'
    BY <1>7, <1>8, <1>9, <1>10, OwnerKept DEF IInv
  <1>12. NobodyBorrows
    BY <1>7, <1>8, <1>10 DEF NobodyBorrows
  <1>13. QED
    BY <1>3, <1>5, <1>11, <1>12 DEF IInv

LEMMA EndsKeeps ==
    ASSUME IInv, TypeOK', NEW r \in Requests, NEW from, NEW status, NEW to,
           Ends(r, from, status, to), status # "none", from # "search",
           to \in {"search", "retry", "done", "failed"},
           UNCHANGED <<plan, requests, Elsewhere>>,
           to = "search" => from = "tick" \/ (from = "get" /\ status = "ok"),
           from = "tick" \/ (from = "get" /\ status = "ok") => to = "search" \/ status = "lost"
    PROVE  IInv' /\ NobodyBorrows
  <1> USE DEF Elsewhere, loopVars, searchVars
  <1>1. /\ pc[r] = from /\ reply[r].status = status /\ reply[r] # NoReply
        /\ pc'[r] = to /\ reply'[r] = NoReply /\ api' = api
        /\ \A q \in Requests \ {r} : pc'[q] = pc[q] /\ reply'[q] = reply[q]
    BY DEF Ends, NoReply, Reply, IInv, TypeOK
  <1>2. LineInv' /\ ServiceInv'
    BY <1>1, TaskGoesOn DEF IInv
  <1>3. ReplyInv'
    BY <1>1 DEF ReplyInv, IInv, NoReply, Reply
  <1>4. IsAnswered(serving) => serving.from # r
    BY <1>1, NoMessage DEF IInv
  <1>5. Borrows(r) => from = "tick" \/ (from = "get" /\ status = "ok") \/ from = "search"
    BY <1>1, <1>4 DEF Borrows, IsAnswered
  <1>6. Borrows(r)' <=> to = "search"
    BY <1>1, <1>4 DEF Borrows, IsAnswered, NoReply, Reply
  <1>7. from = "tick" \/ (from = "get" /\ status = "ok") => Borrows(r)
    BY <1>1 DEF Borrows
  <1>8. status = "lost" => stateLoop = "failed"
    BY <1>1 DEF IInv, ReplyInv
  <1>9. \A q \in Requests \ {r} : Borrows(q)' <=> Borrows(q)
    BY <1>1, OthersBorrow DEF IInv
  <1>10. OwnerInv'
    BY <1>5, <1>6, <1>7, <1>8, <1>9, OwnerKept DEF IInv
  <1>11. NobodyBorrows
    BY <1>6, <1>7, <1>9 DEF NobodyBorrows
  <1>12. QED
    BY <1>2, <1>3, <1>10, <1>11 DEF IInv

\* The messages of a command that sees its cancellation are orphaned; it
\* gives nothing back.
LEMMA CancelKeeps ==
    ASSUME IInv, TypeOK', NEW r \in Requests, CancelSeen(r), plan' = plan
    PROVE  IInv' /\ NobodyBorrows
  <1> USE DEF searchVars
  <1> DEFINE g == GivingNothing(r)
  <1>1. /\ pc[r] \in {"search", "tick"} /\ pc'[r] = "cancel"
        /\ \A q \in Requests \ {r} : pc'[q] = pc[q] /\ reply'[q] = reply[q]
        /\ reply'[r] = (IF stateLoop = "failed" THEN Lost ELSE NoReply)
        /\ r # None
    BY ConstantsAssumption DEF CancelSeen, IInv, TypeOK
  <1>2. /\ requests \in Seq(Messages) /\ outbox \in Seq(Messages) /\ api \in Seq(Messages)
        /\ requests' \in Seq(Messages) /\ outbox' \in Seq(Messages) /\ api' \in Seq(Messages)
        /\ Line \in Seq(Messages) /\ g \in Messages
    BY InLine, MessageTypes DEF IInv, TypeOK
  <1>3. g.from = r /\ g.kind = plan.kind /\ g.cmd = "Set"
    BY MessageParts, KindOfPlan DEF GivingNothing, IInv
  \* A message of r is the one of its tick, which the searchers do not answer.
  <1>4. ASSUME NEW m \in Messages, Sound(m)
        PROVE  /\ m.from = r => ~IsAnswered(m) /\ m.cmd \in {"Clear", "Drop"}
               /\ Sound(Orphaned(m, r))'
               /\ Orphaned(m, r).from # r /\ (IsAnswered(Orphaned(m, r)) <=> IsAnswered(m))
    <2>1. CASE m.from = r
      <3>1. ~IsAnswered(m) /\ m.cmd \in {"Clear", "Drop"}
        BY <1>1, <1>4, <2>1 DEF Sound, Awaits, IsAnswered
      <3>2. /\ Orphaned(m, r).from = None /\ Orphaned(m, r).cmd = m.cmd
            /\ Orphaned(m, r).kind = m.kind
        BY <2>1 DEF Messages, Orphaned
      <3>3. QED
        BY <1>1, <3>1, <3>2 DEF Sound, IsAnswered
    <2>2. CASE m.from # r
      BY <1>1, <1>4, <2>2 DEF Orphaned, Sound, Awaits, IsAnswered, Messages
    <2>3. QED
      BY <2>1, <2>2
  <1> HIDE DEF g
  <1>5. \A m \in Messages : Sound(m) => Sound(Orphaned(m, r))' /\ Orphaned(m, r).from # r
    BY <1>4
  \* The line is orphaned, and g comes last.
  <1>6. \A i \in DOMAIN Line' :
           \/ i \in DOMAIN Line /\ Line'[i] = Orphaned(Line[i], r)
           \/ stateLoop # "failed" /\ i = Len(Line) + 1 /\ Line'[i] = g
    <2> DEFINE a == Orphan(requests, r)
               b == Orphan(outbox, r)
               c == Orphan(api, r)
               l == a \o b \o c
    <2>1. /\ a \in Seq(Messages) /\ b \in Seq(Messages) /\ c \in Seq(Messages)
          /\ Len(a) = Len(requests) /\ Len(b) = Len(outbox) /\ Len(c) = Len(api)
          /\ \A i \in 1..Len(requests) : a[i] = Orphaned(requests[i], r)
          /\ \A i \in 1..Len(outbox) : b[i] = Orphaned(outbox[i], r)
          /\ \A i \in 1..Len(api) : c[i] = Orphaned(api[i], r)
          /\ api = <<>> => c = <<>>
      <3>1. /\ a \in Seq(Messages) /\ Len(a) = Len(requests)
            /\ \A i \in 1..Len(requests) : a[i] = Orphaned(requests[i], r)
        BY <1>2, OrphanType
      <3>2. /\ b \in Seq(Messages) /\ Len(b) = Len(outbox)
            /\ \A i \in 1..Len(outbox) : b[i] = Orphaned(outbox[i], r)
        BY <1>2, OrphanType
      <3>3. /\ c \in Seq(Messages) /\ Len(c) = Len(api) /\ (api = <<>> => c = <<>>)
            /\ \A i \in 1..Len(api) : c[i] = Orphaned(api[i], r)
        BY <1>2, OrphanType
      <3>4. QED
        BY <3>1, <3>2, <3>3
    <2>2. /\ requests' = a /\ outbox' = b
          /\ stateLoop # "failed" => api' = Append(c, g)
          /\ stateLoop = "failed" => api' = api /\ api = <<>>
      BY DEF CancelSeen, g, IInv, ServiceInv
    <2> HIDE DEF a, b, c
    <2>3. /\ l \in Seq(Messages) /\ Len(l) = Len(Line)
          /\ DOMAIN l = 1..Len(l) /\ DOMAIN Line = 1..Len(Line)
          /\ \A i \in DOMAIN Line : l[i] = Orphaned(Line[i], r)
      <3> DEFINE x == Len(requests)
                 y == Len(outbox)
                 z == Len(api)
      <3>1. /\ l \in Seq(Messages) /\ Len(l) = Len(a) + Len(b) + Len(c)
            /\ \A i \in 1..Len(a) : l[i] = a[i]
            /\ \A i \in 1..Len(b) : l[Len(a) + i] = b[i]
            /\ \A i \in 1..Len(c) : l[Len(a) + Len(b) + i] = c[i]
        <4>1. a \in Seq(Messages) /\ b \in Seq(Messages) /\ c \in Seq(Messages)
          BY <2>1
        <4>2. QED
          BY <4>1, Joined
      <3>2. /\ x \in Nat /\ y \in Nat /\ z \in Nat
            /\ DOMAIN Line = 1..Len(Line) /\ Len(Line) = x + y + z
            /\ \A i \in 1..x : Line[i] = requests[i]
            /\ \A i \in 1..y : Line[x + i] = outbox[i]
            /\ \A i \in 1..z : Line[x + y + i] = api[i]
        BY InLine DEF IInv
      <3>3. Len(a) = x /\ Len(b) = y /\ Len(c) = z
        BY <2>1
      <3>4. DOMAIN l = 1..Len(l)
        BY <3>1, LenProperties
      <3>5. /\ \A i \in 1..x : a[i] = Orphaned(requests[i], r)
            /\ \A i \in 1..y : b[i] = Orphaned(outbox[i], r)
            /\ \A i \in 1..z : c[i] = Orphaned(api[i], r)
        BY <2>1
      <3> HIDE DEF l, x, y, z
      <3>6. ASSUME NEW i \in 1..x + y + z PROVE l[i] = Orphaned(Line[i], r)
        <4>1. CASE i <= x
          <5>1. i \in 1..x
            BY <3>2, <4>1
          <5>2. QED
            BY <3>1, <3>2, <3>3, <3>5, <5>1
        <4>2. CASE i > x /\ i <= x + y
          <5> DEFINE j == i - x
          <5>1. j \in 1..y /\ i = x + j
            BY <3>2, <4>2
          <5> HIDE DEF j
          <5>2. l[x + j] = b[j] /\ Line[x + j] = outbox[j] /\ b[j] = Orphaned(outbox[j], r)
            BY <3>1, <3>2, <3>3, <3>5, <5>1
          <5>3. QED
            BY <5>1, <5>2
        <4>3. CASE i > x + y
          <5> DEFINE j == i - x - y
          <5>1. j \in 1..z /\ i = x + y + j
            BY <3>2, <4>3
          <5> HIDE DEF j
          <5>2. l[x + y + j] = c[j] /\ Line[x + y + j] = api[j] /\ c[j] = Orphaned(api[j], r)
            BY <3>1, <3>2, <3>3, <3>5, <5>1
          <5>3. QED
            BY <5>1, <5>2
        <4>4. QED
          BY <3>2, <4>1, <4>2, <4>3
      <3>7. QED
        BY <3>1, <3>2, <3>3, <3>4, <3>6
    <2>4. CASE stateLoop = "failed"
      <3>1. Line' = l
        BY <2>1, <2>2, <2>4 DEF Line
      <3>2. QED
        BY <2>3, <3>1
    <2>5. CASE stateLoop # "failed"
      <3>1. Line' = Append(l, g)
        <4>1. a \o b \o Append(c, g) = Append(a \o b \o c, g)
            <5>1. a \in Seq(Messages) /\ b \in Seq(Messages) /\ c \in Seq(Messages) /\ g \in Messages
            BY <1>2, <2>1
          <5>2. QED
            BY <5>1, JoinedAppend
        <4>2. QED
          BY <2>2, <2>5, <4>1 DEF Line
      <3> HIDE DEF l
      <3>2. QED
        <4>1. /\ Append(l, g) \in Seq(Messages) /\ Len(Append(l, g)) = Len(l) + 1
              /\ Append(l, g)[Len(l) + 1] = g
              /\ \A i \in 1..Len(l) : Append(l, g)[i] = l[i]
              /\ Len(l) \in Nat
          BY <1>2, <2>3, AppendProperties, LenProperties
        <4>2. DOMAIN Line' = 1..Len(l) + 1
          BY <3>1, <4>1, LenProperties
        <4>3. QED
          BY <2>3, <2>5, <3>1, <4>1, <4>2
    <2>6. QED
      BY <2>4, <2>5
  <1>7. \A i \in DOMAIN Line : Line[i] \in Messages /\ Sound(Line[i])
    BY <1>2, LenProperties DEF IInv, LineInv
  <1>8. LineInv'
    <2>1. ASSUME NEW i \in DOMAIN Line' PROVE Sound(Line[i])'
      <3>1. CASE i \in DOMAIN Line /\ Line'[i] = Orphaned(Line[i], r)
        <4>1. PICK m \in Messages : m = Line[i] /\ Sound(m)
          BY <1>7, <3>1
        <4>2. Sound(Orphaned(m, r))' /\ Orphaned(m, r)' = Orphaned(m, r)
          BY <1>5, <4>1 DEF Orphaned
        <4>3. Line'[i] = Orphaned(m, r)
          BY <3>1, <4>1
        <4>4. QED
          BY <4>2, <4>3 DEF Sound, Awaits, IsAnswered
      <3>2. CASE stateLoop # "failed" /\ Line'[i] = g
        BY <1>1, <1>3, <3>2 DEF Sound, Awaits, IsAnswered
      <3>3. QED
        BY <1>6, <3>1, <3>2
    <2>2. \A m \in Messages : Orphaned(m, r).from # None => Orphaned(m, r).from = m.from
      BY DEF Orphaned, Messages
    <2>3. \A i \in DOMAIN Line : Orphaned(Line[i], r).from # r
      BY <1>5, <1>7
    <2>4. ASSUME NEW i \in DOMAIN Line', NEW j \in DOMAIN Line',
                 Line'[i].from = Line'[j].from, Line'[i].from # None
          PROVE  i = j
      BY <1>3, <1>6, <1>7, <2>2, <2>3, <2>4 DEF IInv, LineInv
    <2>5. QED
      BY <2>1, <2>4 DEF LineInv
  <1>9. /\ serving' = Orphaned(serving, r) /\ serving \in Messages /\ answer' = answer
        /\ stateLoop' = stateLoop
        /\ requests' = Orphan(requests, r) /\ outbox' = Orphan(outbox, r)
        /\ stateLoop = "failed" => api' = api
    BY DEF CancelSeen, Orphaned, IInv, TypeOK
  <1>10. \A m \in Messages :
            /\ IsAnswered(Orphaned(m, r)) <=> IsAnswered(m)
            /\ Orphaned(m, r).from \in {m.from, None} /\ Orphaned(m, r).cmd = m.cmd
    BY DEF Orphaned, IsAnswered, Messages
  <1>11. IsAnswered(serving') =>
            IsAnswered(serving) /\ Sound(serving) /\ serving.from # r /\ serving' = serving
    <2> HAVE IsAnswered(serving')
    <2>1. IsAnswered(serving)
      BY <1>9, <1>10
    <2>2. Sound(serving)
      BY <2>1 DEF IInv, ServiceInv
    <2>3. serving.from # r
      BY <1>4, <1>9, <2>1, <2>2
    <2>4. QED
      BY <1>9, <2>1, <2>2, <2>3 DEF Orphaned
  <1>12. ServiceInv'
    <2>1. ASSUME stateLoop # "busy" PROVE outbox' = <<>> /\ serving' = Nothing /\ answer' = NoReply
      <3>1. outbox = <<>> /\ serving = Nothing /\ answer = NoReply
        BY <2>1 DEF IInv, ServiceInv
      <3>2. outbox' = <<>>
        BY <1>2, <1>9, <3>1, OrphanType
      <3>3. Nothing.from # r
        BY <1>1, MessageParts DEF Nothing
      <3>4. QED
        BY <1>9, <3>1, <3>2, <3>3 DEF Orphaned
    <2>2. ASSUME IsAnswered(serving') PROVE Sound(serving)'
      <3>1. serving' = serving /\ Sound(serving) /\ serving.from # r
        BY <1>11, <2>2
      <3>2. QED
        BY <1>1, <1>9, <3>1 DEF Sound, Awaits, IsAnswered, Messages
    <2>3. ASSUME IsAnswered(serving'), answer' # NoReply, NEW i \in DOMAIN Line'
          PROVE  Line'[i].from # serving'.from
      <3>1. /\ serving' = serving /\ serving.from # r /\ serving.from # None
            /\ \A j \in DOMAIN Line : Line[j].from # serving.from
        BY <1>9, <1>11, <2>3 DEF IInv, ServiceInv, Sound
      <3>2. CASE i \in DOMAIN Line /\ Line'[i] = Orphaned(Line[i], r)
        BY <1>7, <1>10, <3>1, <3>2
      <3>3. CASE Line'[i] = g
        BY <1>3, <3>1, <3>3
      <3>4. QED
        BY <1>6, <3>2, <3>3
    <2>4. /\ DOMAIN outbox' = DOMAIN outbox /\ DOMAIN requests' = DOMAIN requests
          /\ \A i \in DOMAIN outbox :
                outbox[i] \in Messages /\ outbox'[i] = Orphaned(outbox[i], r)
          /\ \A i \in DOMAIN requests :
                requests[i] \in Messages /\ requests'[i] = Orphaned(requests[i], r)
          /\ outbox = <<>> => outbox' = <<>>
      <3>1. /\ DOMAIN outbox = 1..Len(outbox) /\ DOMAIN requests = 1..Len(requests)
            /\ \A i \in DOMAIN outbox : outbox[i] \in Messages
            /\ \A i \in DOMAIN requests : requests[i] \in Messages
        BY <1>2, LenProperties
      <3>2. DOMAIN outbox' = 1..Len(outbox') /\ DOMAIN requests' = 1..Len(requests')
        BY <1>2, LenProperties
      <3>3. /\ Len(outbox') = Len(outbox) /\ (outbox = <<>> => outbox' = <<>>)
            /\ \A i \in 1..Len(outbox) : outbox'[i] = Orphaned(outbox[i], r)
        BY <1>2, <1>9, OrphanType
      <3>4. /\ Len(requests') = Len(requests)
            /\ \A i \in 1..Len(requests) : requests'[i] = Orphaned(requests[i], r)
        BY <1>2, <1>9, OrphanType
      <3>5. QED
        BY <3>1, <3>2, <3>3, <3>4
    <2>5. ASSUME NEW i \in DOMAIN outbox', IsAnswered(outbox'[i])
          PROVE  outbox' = <<serving'>> /\ answer' = NoReply
      <3>1. outbox = <<serving>> /\ answer = NoReply
        BY <1>10, <2>4, <2>5 DEF IInv, ServiceInv
      <3>2. 1 \in DOMAIN outbox /\ outbox[1] = serving /\ Len(outbox) = 1
        BY <3>1
      <3>3. outbox'[1] = serving' /\ Len(outbox') = 1
        BY <1>2, <1>9, <2>4, <3>2, OrphanType
      <3>4. <<serving'>> \in Seq(Messages) /\ Len(<<serving'>>) = 1 /\ <<serving'>>[1] = serving'
        <4>1. serving' \in Messages
          BY DEF TypeOK
        <4>2. QED
          BY <4>1
      <3>5. outbox' = <<serving'>>
        BY <1>2, <3>3, <3>4, SeqEqual
      <3>6. QED
        BY <1>9, <3>1, <3>5
    <2>6. ASSUME NEW i \in DOMAIN requests', IsAnswered(requests'[i])
          PROVE  requests'[i] = serving' /\ outbox' = <<>> /\ answer' = NoReply
      <3>1. requests[i] = serving /\ outbox = <<>> /\ answer = NoReply
        BY <1>10, <2>4, <2>6 DEF IInv, ServiceInv
      <3>2. QED
        BY <1>9, <2>4, <2>6, <3>1
    <2>7. /\ stateLoop' = "failed" => api' = <<>>
          /\ answer'.status # "lost"
      BY <1>9 DEF IInv, ServiceInv
    <2>8. QED
      BY <1>9, <2>1, <2>2, <2>3, <2>5, <2>6, <2>7 DEF ServiceInv
  <1>13. ReplyInv'
    BY <1>1, <1>9 DEF IInv, ReplyInv, Lost, NoReply, Reply
  <1>14. \A q \in Requests \ {r} : Borrows(q)' <=> Borrows(q)
    <2>1. /\ serving'.cmd = serving.cmd
          /\ serving.cmd = "Get" => serving' = serving
      BY <1>9, <1>10, <1>11 DEF IsAnswered
    <2>2. QED
      BY <1>1, <1>9, <2>1 DEF Borrows
  <1>15. Borrows(r) /\ (stateLoop # "failed" => Borrows(r)')
    BY <1>1 DEF Borrows
  <1>16. UNCHANGED <<slot, holder>>
    BY DEF CancelSeen
  <1>17. OwnerInv'
    BY <1>9, <1>14, <1>15, <1>16, OwnerKept DEF IInv
  <1>18. NobodyBorrows
    BY <1>14, <1>15 DEF NobodyBorrows
  <1>19. QED
    BY <1>8, <1>12, <1>13, <1>17, <1>18 DEF IInv

\* Every step of a command keeps the invariant.
LEMMA TaskKeeps ==
    ASSUME IInv, NEW r \in Requests, Task(r), plan' = plan
    PROVE  IInv' /\ NobodyBorrows
  <1> USE DEF Elsewhere
  <1>1. TypeOK /\ TypeOK' /\ KindOf(r) = plan.kind /\ plan.kind \in Kinds
    BY TaskType, KindOfPlan DEF IInv
  <1>2. /\ DropOf(r) \in Messages /\ DropOf(r).from = r /\ DropOf(r).kind = plan.kind
        /\ DropOf(r).cmd = "Drop"
    BY <1>1, MessageTypes, MessageParts DEF DropOf
  <1>3. \A cmd \in {"Len", "Get", "Matches", "Clear", "Drop"} :
            LET m == Message(cmd, KindOf(r), r) IN
            m \in Messages /\ m.from = r /\ m.kind = plan.kind /\ m.cmd = cmd
    BY <1>1, MessageTypes, MessageParts
  <1>4. \A h \in Holders :
            LET m == Giving(r, h) IN
            m \in Messages /\ m.from = r /\ m.kind = plan.kind /\ m.cmd = "Set"
    BY <1>1, MessageTypes, MessageParts
  <1>5. LET m == GivingNothing(r) IN
            m \in Messages /\ m.from = r /\ m.kind = plan.kind /\ m.cmd = "Set"
    BY <1>1, MessageTypes, MessageParts DEF GivingNothing
  <1>6. CASE Starts(r)
    <2>1. PICK to \in {"clearing", "dropping"} : AskNext(r, "new", "none", DropOf(r), to)
      BY <1>6 DEF Starts
    <2>2. to \in Steps /\ Awaits(to, "Drop")
      BY <2>1 DEF Steps, Awaits
    <2>3. UNCHANGED <<plan, requests, Elsewhere>>
      BY <1>6 DEF Starts
    <2>4. QED
      BY <1>1, <1>2, <2>1, <2>2, <2>3, AskKeeps
  <1>7. CASE Dropped(r)
    <2>1. "len" \in Steps /\ Awaits("len", "Len")
      BY DEF Steps, Awaits
    <2>2. QED
      BY <1>1, <1>3, <1>7, <2>1, AskKeeps DEF Dropped
  <1>8. CASE NotDropped(r)
    <2>1. PICK to \in {"failed", "retry"} : Ends(r, "dropping", "refused", to)
      BY <1>8 DEF NotDropped
    <2>2. UNCHANGED <<plan, requests, Elsewhere>>
      BY <1>8 DEF NotDropped
    <2>3. QED
      BY <1>1, <2>1, <2>2, EndsKeeps
  <1>9. CASE DropsAgain(r)
    <2>1. "dropping" \in Steps /\ Awaits("dropping", "Drop")
      BY DEF Steps, Awaits
    <2>2. QED
      BY <1>1, <1>2, <1>9, <2>1, AskKeeps DEF DropsAgain
  <1>10. CASE LenKnown(r)
    <2>1. "get" \in Steps /\ Awaits("get", "Get")
      BY DEF Steps, Awaits
    <2>2. QED
      BY <1>1, <1>3, <1>10, <2>1, AskKeeps DEF LenKnown
  <1>11. CASE SearchSpawned(r)
    BY <1>1, <1>11, EndsKeeps DEF SearchSpawned
  <1>12. CASE PutsBack(r)
    <2>1. PICK h : h \in Holders /\ AskNext(r, "get", "ok", Giving(r, h), "putBack")
      <3>1. reply[r].holder \in Holders
        BY <1>1 DEF TypeOK, Replies
      <3>2. [reply[r].holder EXCEPT !.by = None] \in Holders
        BY <3>1 DEF Holders
      <3>3. QED
        BY <1>12, <3>1, <3>2 DEF PutsBack
    <2>2. "putBack" \in Steps /\ Awaits("putBack", "Set")
      BY DEF Steps, Awaits
    <2>3. UNCHANGED <<plan, requests, Elsewhere>>
      BY <1>12 DEF PutsBack
    <2>4. QED
      BY <1>1, <1>4, <2>1, <2>2, <2>3, AskKeeps
  <1>13. CASE ResultTaken(r)
    <2>1. PICK m \in {Giving(r, held[r]), GivingNothing(r)}, to \in {"put", "fail"} :
             AskNext(r, "search", "none", m, to)
      BY <1>13 DEF ResultTaken
    <2>2. m \in Messages /\ m.from = r /\ m.kind = plan.kind /\ m.cmd = "Set"
      <3>1. held[r] \in Holders
        BY <1>1 DEF TypeOK
      <3>2. QED
        BY <1>4, <1>5, <3>1
    <2>3. to \in Steps /\ Awaits(to, "Set")
      BY <2>1 DEF Steps, Awaits
    <2>4. UNCHANGED <<plan, requests, Elsewhere>>
      BY <1>13 DEF ResultTaken
    <2>5. QED
      BY <1>1, <2>1, <2>2, <2>3, <2>4, AskKeeps
  <1>14. CASE Ticks(r)
    <2> DEFINE cmd == IF plan.kind = "regular" THEN "Clear" ELSE "Drop"
    <2>1. "tick" \in Steps /\ Awaits("tick", cmd)
      BY DEF Steps, Awaits
    <2>2. AskNext(r, "search", "none", Message(cmd, KindOf(r), r), "tick")
      BY <1>1, <1>14 DEF Ticks
    <2>3. UNCHANGED <<plan, requests, Elsewhere>>
      BY <1>14 DEF Ticks
    <2>4. cmd \in {"Clear", "Drop"}
      OBVIOUS
    <2> HIDE DEF cmd
    <2>5. QED
      BY <1>1, <1>3, <2>1, <2>2, <2>3, <2>4, AskKeeps
  <1>15. CASE TickAnswered(r)
    BY <1>1, <1>15, EndsKeeps DEF TickAnswered
  <1>16. CASE CancelSeen(r)
    BY <1>1, <1>16, CancelKeeps
  <1>17. CASE HolderReturned(r)
    <2>1. UNCHANGED <<plan, requests, Elsewhere>>
      BY <1>17 DEF HolderReturned
    <2>2. CASE AskNext(r, "put", "ok", Message("Matches", KindOf(r), r), "show")
      <3>1. "show" \in Steps /\ Awaits("show", "Matches")
        BY DEF Steps, Awaits
      <3>2. QED
        BY <1>1, <1>3, <2>1, <2>2, <3>1, AskKeeps
    <2>3. CASE AskNext(r, "fail", "ok", DropOf(r), "failDrop")
      <3>1. "failDrop" \in Steps /\ Awaits("failDrop", "Drop")
        BY DEF Steps, Awaits
      <3>2. QED
        BY <1>1, <1>2, <2>1, <2>3, <3>1, AskKeeps
    <2>4. CASE AskNext(r, "cancel", "ok", DropOf(r), "cancelDrop")
      <3>1. "cancelDrop" \in Steps /\ Awaits("cancelDrop", "Drop")
        BY DEF Steps, Awaits
      <3>2. QED
        BY <1>1, <1>2, <2>1, <2>4, <3>1, AskKeeps
    <2>5. QED
      BY <1>17, <2>2, <2>3, <2>4 DEF HolderReturned
  <1>18. CASE TaskEnds(r)
    <2>1. PICK from \in Steps \ {"search"}, status \in {"ok", "refused", "lost"},
               to \in {"done", "failed"} :
             /\ Ends(r, from, status, to)
             /\ from = "tick" \/ (from = "get" /\ status = "ok") => status = "lost"
      <3>1. pc[r] \in Steps
        BY <1>1 DEF TypeOK
      <3>2. QED
        BY <1>18, <3>1 DEF TaskEnds, Steps
    <2>2. UNCHANGED <<plan, requests, Elsewhere>>
      BY <1>18 DEF TaskEnds
    <2>3. QED
      BY <1>1, <2>1, <2>2, EndsKeeps
  <1>19. QED
    BY <1>6, <1>7, <1>8, <1>9, <1>10, <1>11, <1>12, <1>13, <1>14, <1>15, <1>16, <1>17, <1>18
       DEF Task

\* So do the steps that leave all channels and answers alone, ...
LEMMA QuietKeeps ==
    ASSUME IInv, TypeOK',
           UNCHANGED <<plan, pc, reply, api, requests, stateLoop, serving, outbox, answer, slot>>,
           \A k \in Kinds : slot[k] = "InUse" => holder'[k] = holder[k]
    PROVE  IInv' /\ NobodyBorrows
  <1>1. \A r \in Requests : Borrows(r)' <=> Borrows(r)
    BY DEF Borrows
  <1>2. Line' = Line
    BY DEF Line
  <1>3. LineInv' /\ ServiceInv' /\ ReplyInv'
    BY <1>2 DEF IInv, LineInv, ServiceInv, ReplyInv, Sound, Awaits, IsAnswered
  <1>4. OwnerInv'
    BY <1>1 DEF IInv, OwnerInv
  <1>5. QED
    BY <1>1, <1>3, <1>4 DEF IInv, NobodyBorrows

\* ... and the write of the producer.
LEMMA ProducesKeeps ==
    ASSUME IInv, Produces, plan' = plan
    PROVE  IInv' /\ NobodyBorrows
  <1> USE DEF taskVars, chanVars, loopVars, searchVars
  <1>1. TypeOK'
    BY NextType DEF IInv, Next
  <1>2. /\ Write \in Messages /\ Write.from = None /\ Write.cmd = "Write"
        /\ ~IsAnswered(Write)
    BY MessageTypes, MessageParts DEF Write, IsAnswered, IInv
  <1>3. /\ Line \in Seq(Messages) /\ Line' = Append(Line, Write)
    <2>1. /\ requests \in Seq(Messages) /\ outbox \in Seq(Messages) /\ api \in Seq(Messages)
          /\ requests' = requests /\ outbox' = outbox /\ api' = Append(api, Write)
      BY DEF IInv, TypeOK, Produces
    <2>2. requests \o outbox \o Append(api, Write) = Append(requests \o outbox \o api, Write)
      BY <1>2, <2>1, JoinedAppend
    <2>3. QED
      BY <2>1, <2>2, InLine DEF Line, IInv
  <1>4. \A i \in DOMAIN Line' :
            (i \in DOMAIN Line /\ Line'[i] = Line[i]) \/ Line'[i] = Write
    BY <1>2, <1>3, AppendProperties, LenProperties
  <1>5. LineInv'
    <2> DEFINE f == [i \in DOMAIN Line' |-> i]
    <2>1. \A i \in DOMAIN Line' : f[i] = i
      OBVIOUS
    <2>2. UNCHANGED <<pc, reply>>
      BY DEF Produces
    <2> HIDE DEF f
    <2>3. QED
      BY <1>1, <1>2, <1>4, <2>1, <2>2, LineKept DEF IInv
  <1>6. ServiceInv'
    <2>1. ASSUME IsAnswered(serving), answer # NoReply, NEW i \in DOMAIN Line'
          PROVE  Line'[i].from # serving.from
      BY <1>2, <1>4, <2>1 DEF IInv, ServiceInv, Sound
    <2>2. UNCHANGED <<plan, pc, reply, requests, stateLoop, serving, outbox, answer>>
          /\ stateLoop # "failed"
      BY DEF Produces
    <2>3. QED
      BY <2>1, <2>2 DEF IInv, ServiceInv, Sound, Awaits, IsAnswered
  <1>7. ReplyInv' /\ OwnerInv' /\ NobodyBorrows
    <2>1. UNCHANGED <<plan, pc, reply, stateLoop, serving, answer, slot, holder>>
      BY DEF Produces
    <2>2. \A r \in Requests : Borrows(r)' <=> Borrows(r)
      BY <2>1 DEF Borrows
    <2>3. QED
      BY <2>1, <2>2 DEF IInv, OwnerInv, ReplyInv, NobodyBorrows
  <1>8. QED
    BY <1>1, <1>5, <1>6, <1>7 DEF IInv

-----------------------------------------------------------------------------
(* The steps of the state loop.                                            *)

\* While it serves nothing it waits for no answer of the searchers.
LEMMA Selecting ==
    ASSUME TypeOK, ServiceInv, stateLoop # "busy"
    PROVE  /\ outbox = <<>> /\ serving = Nothing /\ answer = NoReply
           /\ ~IsAnswered(serving)
           /\ \A i \in DOMAIN requests : ~IsAnswered(requests[i])
           /\ \A r \in Requests :
                Borrows(r) <=> \/ pc[r] = "get" /\ reply[r].status = "ok"
                               \/ pc[r] \in {"search", "tick"}
                               \/ /\ pc[r] \in {"put", "putBack", "fail", "cancel"}
                                  /\ reply[r] = NoReply
  <1>1. outbox = <<>> /\ serving = Nothing /\ answer = NoReply
    BY DEF ServiceInv
  <1>2. serving.cmd = "None" /\ ~IsAnswered(serving)
    BY <1>1, MessageParts DEF Nothing, IsAnswered
  <1>3. QED
    BY <1>1, <1>2 DEF ServiceInv, Borrows

\* It answers a message at once.
LEMMA AnswerKeeps ==
    ASSUME IInv, TypeOK', NEW cmd \in {"Len", "Matches", "Clear"}, Takes(cmd),
           Head(api).from # None, NEW a \in Replies, a.status = "ok",
           reply' = [reply EXCEPT ![Head(api).from] = a],
           UNCHANGED <<plan, pc, requests, stateLoop, serving, outbox, answer, slot, holder>>
    PROVE  IInv' /\ NobodyBorrows
  <1> DEFINE m == Head(api)
  <1>1. /\ stateLoop = "select" /\ api # <<>> /\ m.cmd = cmd /\ m \in Messages /\ Sound(m)
        /\ outbox = <<>> /\ ~IsAnswered(serving)
        /\ \A i \in DOMAIN requests : ~IsAnswered(requests[i])
    BY HeadMessage, HeadOfLine, Selecting DEF IInv, TypeOK, Takes
  <1>2. PICK r \in Requests : r = m.from
    BY <1>1 DEF Messages
  <1>3. pc[r] \in {"len", "show", "tick"} /\ reply[r] = NoReply
    BY <1>1, <1>2, ConstantsAssumption DEF Sound, Awaits
  <1>4. reply'[r] = a /\ \A q \in Requests \ {r} : reply'[q] = reply[q]
    BY <1>2 DEF IInv, TypeOK
  <1>5. LineInv'
    BY <1>1, <1>2, <1>4, MessageAnswered DEF IInv
  <1>6. ServiceInv'
    BY <1>1 DEF IInv, ServiceInv
  <1>7. ReplyInv'
    BY <1>3, <1>4 DEF IInv, ReplyInv
  <1>8. \A q \in Requests \ {r} : Borrows(q)' <=> Borrows(q)
    BY <1>4 DEF Borrows
  <1>9. Borrows(r)' <=> Borrows(r)
    <2>1. serving.cmd # "Get"
      BY <1>1 DEF IsAnswered
    <2>2. QED
      BY <1>3, <2>1 DEF Borrows
  <1>10. OwnerInv'
    BY <1>8, <1>9, OwnerKept DEF IInv
  <1>11. QED
    BY <1>5, <1>6, <1>7, <1>8, <1>9, <1>10 DEF IInv, NobodyBorrows

LEMMA TakesWriteKeeps ==
    ASSUME IInv, TypeOK', TakesWrite, plan' = plan
    PROVE  IInv' /\ NobodyBorrows
  <1> USE DEF taskVars, chanVars, searchVars
  <1>1. /\ stateLoop = "select" /\ outbox = <<>> /\ answer = NoReply /\ answer' = NoReply
        /\ ~IsAnswered(serving) /\ \A i \in DOMAIN requests : ~IsAnswered(requests[i])
        /\ serving'.cmd = "Write" /\ ~IsAnswered(serving') /\ stateLoop' = "busy"
        /\ UNCHANGED <<plan, pc, reply, requests, slot, holder>>
    BY Selecting DEF IInv, TakesWrite, Takes, IsAnswered
  <1>2. LineInv'
    BY <1>1, LineUpdated DEF IInv
  <1>3. \A i \in DOMAIN outbox' : ~IsAnswered(outbox'[i])
    BY MessageParts DEF TakesWrite, IsAnswered
  <1>4. ServiceInv'
    BY <1>1, <1>3 DEF IInv, ServiceInv
  <1>5. \A r \in Requests : Borrows(r)' <=> Borrows(r)
    BY <1>1 DEF Borrows, IsAnswered
  <1>6. ReplyInv' /\ OwnerInv'
    BY <1>1, <1>5 DEF IInv, ReplyInv, OwnerInv
  <1>7. QED
    BY <1>2, <1>4, <1>6, <1>5 DEF IInv, NobodyBorrows

LEMMA TakesForwardKeeps ==
    ASSUME IInv, TypeOK', TakesForward, plan' = plan
    PROVE  IInv' /\ NobodyBorrows
  <1> USE DEF taskVars, chanVars, searchVars
  <1>1. /\ stateLoop = "select" /\ outbox = <<>> /\ answer = NoReply /\ answer' = NoReply
        /\ ~IsAnswered(serving) /\ \A i \in DOMAIN requests : ~IsAnswered(requests[i])
        /\ serving' = Head(api) /\ outbox' = <<serving'>> /\ stateLoop' = "busy"
        /\ UNCHANGED <<plan, pc, reply, requests, slot, holder>>
    BY Selecting DEF IInv, TakesForward, Takes
  <1>2. LineInv'
    BY <1>1, LineForwarded DEF IInv
  <1>3. Sound(serving')
    BY <1>1, HeadOfLine DEF IInv, TakesForward, Takes
  <1>4. Sound(serving)'
    BY <1>1, <1>3 DEF Sound, Awaits
  <1>5. ServiceInv'
    <2>1. NoReply.status = "none"
      BY DEF NoReply, Reply
    <2>2. QED
      BY <1>1, <1>4, <2>1 DEF IInv, ServiceInv
  <1>6. \A r \in Requests : Borrows(r)' <=> Borrows(r)
    BY <1>1 DEF Borrows, NoReply, Reply
  <1>7. ReplyInv' /\ OwnerInv'
    BY <1>1, <1>6 DEF IInv, ReplyInv, OwnerInv
  <1>8. QED
    BY <1>2, <1>5, <1>7, <1>6 DEF IInv, NobodyBorrows

\* The loop ends: whoever waits in its channel has lost the answer.
LEMMA ClearUnheardKeeps ==
    ASSUME IInv, TypeOK', ClearUnheard, plan' = plan
    PROVE  IInv' /\ NobodyBorrows
  <1> USE DEF taskVars, chanVars, searchVars
  <1>1. /\ stateLoop = "select" /\ outbox = <<>> /\ ~IsAnswered(serving)
        /\ \A i \in DOMAIN requests : ~IsAnswered(requests[i])
        /\ api' = <<>> /\ stateLoop' = "failed"
        /\ UNCHANGED <<plan, pc, requests, serving, outbox, answer, slot, holder>>
    BY Selecting DEF IInv, ClearUnheard
  <1>2. \A r \in Requests :
            \/ reply'[r] = reply[r] /\ \A i \in DOMAIN api : api[i].from # r
            \/ reply'[r] = Lost
    BY DEF ClearUnheard
  <1>3. /\ DOMAIN Line = 1..Len(Line) /\ Len(Line) = Len(requests) + Len(api)
        /\ \A i \in 1..Len(requests) : Line[i] = requests[i]
        /\ \A i \in 1..Len(api) : Line[Len(requests) + i] = api[i]
        /\ Len(requests) \in Nat /\ DOMAIN api = 1..Len(api) /\ Len(api) \in Nat
    BY <1>1, InLineIdle, LenProperties DEF IInv, TypeOK
  <1>4. Line' = requests
    <2>1. requests \in Seq(Messages) /\ requests \o <<>> = requests
      BY ConcatEmptySeq DEF IInv, TypeOK
    <2>2. outbox' = <<>>
      BY <1>1
    <2>3. QED
      BY <1>1, <2>1, <2>2 DEF Line
  <1>5. DOMAIN requests = 1..Len(requests) /\ \A i \in DOMAIN requests : requests[i] \in Messages
    BY LenProperties DEF IInv, TypeOK
  <1>6. ASSUME NEW i \in DOMAIN requests, requests[i].from # None
        PROVE  reply'[requests[i].from] = reply[requests[i].from]
    <2>1. requests[i].from \in Requests
      BY <1>5, <1>6 DEF Messages
    <2>2. i \in 1..Len(requests) /\ i \in DOMAIN Line /\ Line[i] = requests[i]
      BY <1>3, <1>5
    <2>3. ASSUME NEW j \in DOMAIN api PROVE api[j].from # requests[i].from
      <3>1. /\ Len(requests) + j \in DOMAIN Line /\ Line[Len(requests) + j] = api[j]
            /\ Len(requests) + j # i
        BY <1>3, <2>2
      <3>2. QED
        BY <1>6, <2>2, <3>1 DEF IInv, LineInv
    <2>4. QED
      BY <2>1, <2>3 DEF ClearUnheard
  <1>7. LineInv'
    <2> DEFINE f == [i \in DOMAIN Line' |-> i]
    <2>1. \A i \in DOMAIN Line' : f[i] = i /\ i \in DOMAIN Line /\ Line'[i] = Line[i]
      BY <1>3, <1>4, <1>5
    <2> HIDE DEF f
    <2>2. QED
      BY <1>1, <1>4, <1>6, <2>1, LineKept DEF IInv
  <1>8. ServiceInv'
    BY <1>1 DEF IInv, ServiceInv
  <1>9. ReplyInv'
    BY <1>1, <1>2 DEF IInv, ReplyInv, Lost, Reply
  <1>10. \A r \in Requests : Borrows(r)' => Borrows(r)
    BY <1>1, <1>2 DEF Borrows, Lost, NoReply, Reply
  <1>11. OwnerInv'
    BY <1>1, <1>10 DEF IInv, OwnerInv
  <1>12. QED
    BY <1>7, <1>8, <1>9, <1>11, <1>10 DEF IInv, NobodyBorrows

LEMMA SendsRequestKeeps ==
    ASSUME IInv, TypeOK', SendsRequest, plan' = plan
    PROVE  IInv' /\ NobodyBorrows
  <1> USE DEF taskVars, searchVars
  <1>1. /\ outbox # <<>> /\ requests' = Append(requests, Head(outbox)) /\ outbox' = Tail(outbox)
        /\ UNCHANGED <<plan, pc, reply, api, stateLoop, serving, answer, slot, holder>>
        /\ requests \in Seq(Messages) /\ outbox \in Seq(Messages) /\ api \in Seq(Messages)
    BY DEF SendsRequest, IInv, TypeOK
  <1>2. Line' = Line
    <2>1. Append(requests, Head(outbox)) \o Tail(outbox) \o api = requests \o outbox \o api
      BY <1>1, JoinedMove
    <2>2. QED
      BY <1>1, <2>1 DEF Line
  <1>3. LineInv' /\ ReplyInv'
    BY <1>1, <1>2 DEF IInv, LineInv, ReplyInv, Sound, Awaits
  <1>4. /\ Head(outbox) = outbox[1] /\ 1 \in DOMAIN outbox
        /\ \A i \in DOMAIN outbox' : i \in Nat /\ i + 1 \in DOMAIN outbox /\ outbox'[i] = outbox[i + 1]
    <2>1. /\ Tail(outbox) \in Seq(Messages) /\ Len(Tail(outbox)) = Len(outbox) - 1
          /\ \A i \in 1..Len(Tail(outbox)) : Tail(outbox)[i] = outbox[i + 1]
          /\ Len(outbox) \in Nat \ {0} /\ DOMAIN outbox = 1..Len(outbox)
          /\ DOMAIN Tail(outbox) = 1..Len(Tail(outbox)) /\ Head(outbox) = outbox[1]
      BY <1>1, HeadTailProperties, LenProperties, EmptySeq
    <2>2. QED
      BY <1>1, <2>1
  <1>5. ASSUME NEW i \in DOMAIN outbox PROVE ~IsAnswered(outbox[i]) \/ outbox' = <<>>
    <2>1. IsAnswered(outbox[i]) => outbox = <<serving>>
      BY DEF IInv, ServiceInv
    <2>2. Tail(<<serving>>) = <<>>
      OBVIOUS
    <2>3. QED
      BY <1>1, <2>1, <2>2
  <1>6. \A i \in DOMAIN requests' :
            (i \in DOMAIN requests /\ requests'[i] = requests[i]) \/ requests'[i] = outbox[1]
    <2>1. Head(outbox) \in Messages
      BY <1>1, HeadMessage
    <2>2. QED
      BY <1>1, <1>4, <2>1, AppendProperties, LenProperties
  <1>7. ServiceInv'
    <2>1. \A i \in DOMAIN outbox' : ~IsAnswered(outbox'[i])
      <3> SUFFICES ASSUME NEW i \in DOMAIN outbox', IsAnswered(outbox'[i]) PROVE FALSE
        OBVIOUS
      <3>1. outbox' = <<>>
        BY <1>4, <1>5
      <3>2. QED
        BY <3>1
    <2>2. ASSUME NEW i \in DOMAIN requests', IsAnswered(requests'[i])
          PROVE  requests'[i] = serving /\ outbox' = <<>> /\ answer = NoReply
      <3>1. requests'[i] = outbox[1]
        BY <1>1, <1>6, <2>2 DEF IInv, ServiceInv
      <3>2. outbox = <<serving>> /\ answer = NoReply /\ outbox' = <<>>
        BY <1>4, <1>5, <2>2, <3>1 DEF IInv, ServiceInv
      <3>3. outbox[1] = serving
        BY <3>2
      <3>4. QED
        BY <3>1, <3>2, <3>3
    <2>3. IsAnswered(serving) =>
            /\ Sound(serving)'
            /\ answer # NoReply => \A i \in DOMAIN Line' : Line'[i].from # serving.from
      BY <1>1, <1>2 DEF IInv, ServiceInv, Sound, Awaits
    <2>4. stateLoop = "busy"
      BY <1>1 DEF IInv, ServiceInv
    <2>5. QED
      BY <1>1, <2>1, <2>2, <2>3, <2>4 DEF IInv, ServiceInv
  <1>8. OwnerInv' /\ NobodyBorrows
    <2>1. \A r \in Requests : Borrows(r)' <=> Borrows(r)
      BY <1>1 DEF Borrows
    <2>2. QED
      BY <1>1, <2>1 DEF IInv, OwnerInv, NobodyBorrows
  <1>9. QED
    BY <1>3, <1>7, <1>8 DEF IInv

\* It is through with a message nobody answers, ...
LEMMA ReturnsKeeps ==
    ASSUME IInv, TypeOK', stateLoop = "busy", outbox = <<>>, ~IsAnswered(serving), Returns,
           UNCHANGED <<plan, pc, reply, api, requests, outbox, slot, holder>>
    PROVE  IInv' /\ NobodyBorrows
  <1>1. stateLoop' = "select" /\ serving' = Nothing /\ answer' = NoReply
    BY DEF Returns
  <1>2. /\ serving.cmd # "Get" /\ serving'.cmd # "Get" /\ ~IsAnswered(serving')
        /\ answer'.status # "lost"
    BY <1>1, MessageParts DEF IsAnswered, Nothing, NoReply, Reply
  <1>3. Line' = Line
    BY DEF Line
  <1>4. LineInv' /\ ReplyInv'
    BY <1>1, <1>3 DEF IInv, LineInv, Sound, Awaits, ReplyInv
  <1>5. ServiceInv'
    BY <1>1, <1>2 DEF IInv, ServiceInv
  <1>6. \A r \in Requests : Borrows(r)' <=> Borrows(r)
    BY <1>2 DEF Borrows
  <1>7. OwnerInv'
    BY <1>1, <1>6 DEF IInv, OwnerInv
  <1>8. QED
    BY <1>4, <1>5, <1>7, <1>6 DEF IInv, NobodyBorrows

\* ... or passes the answer of the searchers on.
LEMMA AnswerPassed ==
    ASSUME IInv, TypeOK', stateLoop = "busy", outbox = <<>>, IsAnswered(serving),
           answer # NoReply, Returns, reply' = [reply EXCEPT ![serving.from] = answer],
           UNCHANGED <<plan, pc, api, requests, outbox, slot, holder>>
    PROVE  IInv' /\ NobodyBorrows
  <1>1. stateLoop' = "select" /\ serving' = Nothing /\ answer' = NoReply
    BY DEF Returns
  <1>2. serving'.cmd # "Get" /\ ~IsAnswered(serving') /\ answer'.status # "lost"
    BY <1>1, MessageParts DEF IsAnswered, Nothing, NoReply, Reply
  <1>3. /\ Sound(serving) /\ serving.from # None /\ serving \in Messages
        /\ \A i \in DOMAIN Line : Line[i].from # serving.from
        /\ answer.status # "lost"
    BY DEF IInv, ServiceInv, Sound, TypeOK
  <1>4. PICK r \in Requests : r = serving.from
    BY <1>3 DEF Messages
  <1>5. /\ reply[r] = NoReply /\ reply'[r] = answer
        /\ pc[r] \in {"get", "clearing", "dropping", "failDrop", "cancelDrop", "tick"}
        /\ pc[r] = "get" <=> serving.cmd = "Get"
        /\ \A q \in Requests \ {r} : reply'[q] = reply[q]
    <2>1. reply[r] = NoReply /\ Awaits(pc[r], serving.cmd) /\ serving.cmd \in {"Get", "Drop"}
      BY <1>3, <1>4 DEF Sound, IsAnswered
    <2>2. /\ pc[r] \in {"get", "clearing", "dropping", "failDrop", "cancelDrop", "tick"}
          /\ pc[r] = "get" <=> serving.cmd = "Get"
      BY <2>1 DEF Awaits
    <2>3. reply'[r] = answer /\ \A q \in Requests \ {r} : reply'[q] = reply[q]
      BY <1>4 DEF IInv, TypeOK
    <2>4. QED
      BY <2>1, <2>2, <2>3
  <1>6. Line' = Line
    BY DEF Line
  <1>7. LineInv'
    <2> DEFINE f == [i \in DOMAIN Line' |-> i]
    <2>1. \A i \in DOMAIN Line' : f[i] = i
      OBVIOUS
    <2>2. ASSUME NEW i \in DOMAIN Line', Line'[i].from # None
          PROVE  reply'[Line'[i].from] = reply[Line'[i].from]
      <3>1. Line[i] \in Messages /\ Line[i].from # r
        BY <1>3, <1>4, <1>6, InLine, LenProperties DEF IInv
      <3>2. QED
        BY <1>5, <1>6, <2>2, <3>1 DEF Messages
    <2> HIDE DEF f
    <2>3. QED
      BY <1>6, <2>1, <2>2, LineKept DEF IInv
  <1>8. ServiceInv'
    <2>1. \A i \in DOMAIN requests : ~IsAnswered(requests[i])
      BY DEF IInv, ServiceInv
    <2>2. QED
      BY <1>1, <1>2, <2>1 DEF IInv, ServiceInv
  <1>9. ReplyInv'
    BY <1>3, <1>5 DEF IInv, ReplyInv
  <1>10. \A q \in Requests \ {r} : Borrows(q)' <=> Borrows(q)
    BY <1>2, <1>4, <1>5 DEF Borrows
  <1>11. Borrows(r)' <=> Borrows(r)
    <2>1. reply[r].status = "none"
      BY <1>5 DEF NoReply, Reply
    <2>2. QED
      BY <1>2, <1>4, <1>5, <2>1 DEF Borrows
  <1>12. \A q \in Requests : Borrows(q)' <=> Borrows(q)
    BY <1>10, <1>11
  <1>13. OwnerInv'
    BY <1>1, <1>12 DEF IInv, OwnerInv
  <1>14. QED
    BY <1>7, <1>8, <1>9, <1>13, <1>12 DEF IInv, NobodyBorrows

\* Every step of the state loop keeps the invariant.
LEMMA StateKeeps ==
    ASSUME IInv, State, plan' = plan
    PROVE  IInv' /\ NobodyBorrows
  <1> USE DEF taskVars, chanVars, loopVars, searchVars
  <1>1. TypeOK'
    BY StateType DEF IInv
  <1>2. CASE TakesWrite
    BY <1>1, <1>2, TakesWriteKeeps
  <1>3. CASE TakesForward
    BY <1>1, <1>3, TakesForwardKeeps
  <1>4. ASSUME NEW cmd, Takes(cmd), cmd \in {"Len", "Matches"} PROVE Head(api).from # None
    BY <1>4, HeadOfLine DEF Takes, IInv, Sound
  <1>5. CASE TakesLen
    <2> DEFINE a == Reply("ok", NewHolder, rows)
    <2>1. a \in Replies /\ a.status = "ok"
      BY MessageTypes DEF Reply, IInv, TypeOK
    <2>2. /\ Takes("Len") /\ reply' = [reply EXCEPT ![Head(api).from] = a]
          /\ UNCHANGED <<plan, pc, requests, stateLoop, serving, outbox, answer, slot, holder>>
      BY <1>5 DEF TakesLen
    <2> HIDE DEF a
    <2>3. QED
      BY <1>1, <1>4, <2>1, <2>2, AnswerKeeps
  <1>6. Yes \in Replies /\ Yes.status = "ok"
    BY MessageTypes DEF Yes, Reply, IInv
  <1>7. CASE TakesMatches
    <2>1. /\ Takes("Matches") /\ reply' = [reply EXCEPT ![Head(api).from] = Yes]
          /\ UNCHANGED <<plan, pc, requests, stateLoop, serving, outbox, answer, slot, holder>>
      BY <1>7 DEF TakesMatches
    <2>2. QED
      BY <1>1, <1>4, <1>6, <2>1, AnswerKeeps
  <1>8. CASE TakesClear
    <2>1. /\ Takes("Clear") /\ reply' = [reply EXCEPT ![Head(api).from] = Yes]
          /\ Head(api).from # None
          /\ UNCHANGED <<plan, pc, requests, stateLoop, serving, outbox, answer, slot, holder>>
      BY <1>8 DEF TakesClear
    <2>2. QED
      BY <1>1, <1>6, <2>1, AnswerKeeps
  <1>9. CASE ClearUnheard
    BY <1>1, <1>9, ClearUnheardKeeps
  <1>10. CASE SendsRequest
    BY <1>1, <1>10, SendsRequestKeeps
  <1>11. CASE WriteServed
    BY <1>1, <1>11, ReturnsKeeps DEF WriteServed, Sent, IsAnswered
  <1>12. CASE SetForwarded
    BY <1>1, <1>12, ReturnsKeeps DEF SetForwarded, Sent, IsAnswered, viewVars, fileVars
  <1>13. CASE ValuesDropped
    BY <1>1, <1>13, ReturnsKeeps DEF ValuesDropped, Sent, IsAnswered
  <1>14. CASE DropServed
    BY <1>1, <1>14, AnswerPassed DEF DropServed, Sent, IsAnswered
  <1>15. CASE GetServed
    BY <1>1, <1>15, AnswerPassed DEF GetServed, Sent, IsAnswered
  <1>16. CASE TakesResponse
    BY <1>1, <1>16, QuietKeeps DEF TakesResponse
  <1>17. QED
    BY <1>2, <1>3, <1>5, <1>7, <1>8, <1>9, <1>10, <1>11, <1>12, <1>13, <1>14, <1>15, <1>16
       DEF State

-----------------------------------------------------------------------------
(* The steps of the searchers.                                             *)

\* They serve a request the state loop does not wait for, ...
LEMMA ServesKeeps ==
    ASSUME IInv, TypeOK', NEW cmd \in {"Search", "Set", "Drop"}, Serves(cmd),
           ~IsAnswered(Head(requests)),
           UNCHANGED <<plan, pc, api, outbox, serving, answer, stateLoop>>,
           \A r \in Requests : r # Head(requests).from => reply'[r] = reply[r]
    PROVE  LineInv' /\ ServiceInv'
  <1> DEFINE m == Head(requests)
  <1>1. LineInv'
    BY RequestServed DEF IInv
  <1>2. /\ m \in Messages /\ m.cmd = cmd /\ Sound(m)
        /\ \A i \in DOMAIN requests' :
              i + 1 \in DOMAIN requests /\ requests'[i] = requests[i + 1]
        /\ \A i \in DOMAIN Line' : i + 1 \in DOMAIN Line /\ Line'[i] = Line[i + 1]
    BY RequestTaken DEF IInv
  <1>3. ASSUME IsAnswered(serving)
        PROVE  /\ Sound(serving)'
               /\ answer # NoReply => \A i \in DOMAIN Line' : Line'[i].from # serving.from
    <2>1. Sound(serving) /\ serving.from # None /\ serving.from \in Requests
      BY <1>3 DEF IInv, ServiceInv, Sound, TypeOK, Messages
    <2>2. serving.from # m.from
      <3> SUFFICES ASSUME serving.from = m.from PROVE FALSE
        OBVIOUS
      <3>1. /\ serving.kind = plan.kind /\ m.kind = plan.kind
            /\ Awaits(pc[serving.from], serving.cmd) /\ Awaits(pc[serving.from], cmd)
        BY <1>2, <2>1 DEF Sound
      <3>2. QED
        BY <1>2, <1>3, <3>1 DEF Awaits, IsAnswered
    <2>3. Sound(serving)'
      BY <2>1, <2>2 DEF Sound, Awaits, IsAnswered
    <2>4. answer # NoReply => \A i \in DOMAIN Line' : Line'[i].from # serving.from
      BY <1>2, <1>3 DEF IInv, ServiceInv
    <2>5. QED
      BY <2>3, <2>4
  <1>4. ServiceInv'
    BY <1>2, <1>3 DEF IInv, ServiceInv, IsAnswered
  <1>5. QED
    BY <1>1, <1>4

\* ... or one it waits for.
LEMMA AnswersLoop ==
    ASSUME IInv, TypeOK', NEW cmd \in {"Get", "Drop"}, Serves(cmd),
           IsAnswered(Head(requests)), answer'.status # "lost",
           UNCHANGED <<plan, pc, reply, api, outbox, serving, stateLoop>>
    PROVE  /\ LineInv' /\ ServiceInv' /\ ReplyInv'
           /\ serving = Head(requests) /\ answer = NoReply
           /\ Sound(serving) /\ serving.from \in Requests
  <1> DEFINE m == Head(requests)
  <1>1. LineInv'
    BY RequestServed DEF IInv
  <1>2. /\ m \in Messages /\ Sound(m) /\ m.from # None
        /\ 1 \in DOMAIN requests /\ requests[1] = m
        /\ \A i \in DOMAIN requests' :
              i \in Nat /\ i + 1 \in DOMAIN requests /\ requests'[i] = requests[i + 1]
        /\ \A i \in DOMAIN Line' : Line'[i].from # m.from
    BY RequestTaken DEF IInv, Sound
  <1>3. m = serving /\ outbox = <<>> /\ answer = NoReply
    BY <1>2 DEF IInv, ServiceInv
  <1>4. serving.from \in Requests
    BY <1>2, <1>3 DEF Messages
  <1>5. Sound(serving)'
    BY <1>2, <1>3 DEF Sound, Awaits
  <1>6. ASSUME NEW i \in DOMAIN requests' PROVE ~IsAnswered(requests'[i])
    <2> SUFFICES ASSUME IsAnswered(requests'[i]) PROVE FALSE
      OBVIOUS
    <2>1. requests'[i] = serving
      BY <1>2, <1>6 DEF IInv, ServiceInv
    <2>2. /\ i \in 1..Len(requests') /\ Len(requests') \in Nat
          /\ DOMAIN Line' = 1..Len(Line') /\ Len(requests') <= Len(Line')
          /\ Line'[i] = requests'[i]
      <3>1. /\ requests' \in Seq(Messages) /\ outbox' \in Seq(Messages) /\ api' \in Seq(Messages)
        BY DEF TypeOK
      <3> DEFINE l == requests' \o outbox' \o api'
      <3>2. /\ l \in Seq(Messages) /\ Len(requests') \in Nat
            /\ Len(outbox') \in Nat /\ Len(api') \in Nat
            /\ Len(l) = Len(requests') + Len(outbox') + Len(api')
            /\ \A j \in 1..Len(requests') : l[j] = requests'[j]
        BY <3>1, Joined
      <3>3. DOMAIN l = 1..Len(l) /\ DOMAIN requests' = 1..Len(requests')
        BY <3>1, <3>2, LenProperties
      <3>4. Line' = l
        BY DEF Line
      <3> HIDE DEF l
      <3>5. QED
        BY <1>6, <3>2, <3>3, <3>4
    <2>3. QED
      BY <1>2, <1>3, <2>1, <2>2
  <1>7. ServiceInv'
    <2>1. stateLoop = "busy"
      <3>1. ~IsAnswered(Nothing)
        BY MessageParts DEF Nothing, IsAnswered
      <3>2. QED
        BY <1>3, <3>1 DEF IInv, ServiceInv
    <2>2. \A i \in DOMAIN outbox' : ~IsAnswered(outbox'[i])
      <3>1. DOMAIN outbox' = {}
        BY <1>3
      <3>2. QED
        BY <3>1
    <2>3. \A i \in DOMAIN Line' : Line'[i].from # serving.from
      BY <1>2, <1>3
    <2>4. QED
      BY <1>5, <1>6, <2>1, <2>2, <2>3 DEF ServiceInv
  <1>8. ReplyInv'
    BY DEF IInv, ReplyInv
  <1>9. QED
    BY <1>1, <1>2, <1>3, <1>4, <1>7, <1>8

LEMMA UpdateKeeps ==
    ASSUME IInv, TypeOK', SearchesOn \/ SkipsUpdate, plan' = plan
    PROVE  IInv' /\ NobodyBorrows
  <1> USE DEF taskVars, loopVars, searchVars
  <1>1. /\ Serves("Search") /\ ~IsAnswered(Head(requests))
        /\ UNCHANGED <<plan, pc, reply, api, outbox, serving, answer, stateLoop, slot>>
    BY DEF SearchesOn, SkipsUpdate, Serves, IsAnswered
  <1>2. \A k \in Kinds : slot[k] = "InUse" => holder'[k] = holder[k]
    BY DEF SearchesOn, SkipsUpdate, IInv, TypeOK
  <1>3. LineInv' /\ ServiceInv'
    BY <1>1, ServesKeeps
  <1>4. \A r \in Requests : Borrows(r)' <=> Borrows(r)
    BY <1>1 DEF Borrows
  <1>5. ReplyInv' /\ OwnerInv'
    BY <1>1, <1>2, <1>4 DEF IInv, ReplyInv, OwnerInv
  <1>6. QED
    BY <1>3, <1>5, <1>4 DEF IInv, NobodyBorrows

LEMMA LendsHolderKeeps ==
    ASSUME IInv, TypeOK', LendsHolder, plan' = plan
    PROVE  /\ IInv' /\ Head(requests).kind = plan.kind
           /\ \/ /\ slot[plan.kind] = "InUse"
                 /\ \A q \in Requests : Borrows(q)' <=> Borrows(q)
              \/ /\ \A q \in Requests : ~Borrows(q)
                 /\ \E r \in Requests : \A q \in Requests : Borrows(q)' <=> q = r
  <1> USE DEF taskVars, searchVars
  <1> DEFINE k == plan.kind
  <1>1. Yes.status = "ok" /\ No.status = "refused" /\ NoReply.status = "none"
        /\ \A h : Reply("ok", h, 0).status = "ok"
    BY DEF Yes, No, NoReply, Reply
  <1>2. /\ Serves("Get") /\ IsAnswered(Head(requests))
        /\ UNCHANGED <<plan, pc, reply, api, outbox, serving, stateLoop>>
        /\ answer'.status = (IF slot[Head(requests).kind] = "InUse" THEN "refused" ELSE "ok")
    BY <1>1 DEF LendsHolder, Serves, IsAnswered
  <1>3. /\ LineInv' /\ ServiceInv' /\ ReplyInv'
        /\ serving = Head(requests) /\ answer = NoReply /\ Sound(serving)
        /\ serving.from \in Requests
    BY <1>2, AnswersLoop
  <1>4. serving.cmd = "Get" /\ Head(requests).kind = k /\ k \in Kinds /\ serving.from # None
    BY <1>2, <1>3, KindOfPlan, ConstantsAssumption DEF Sound, Serves, IInv
  <1>5. PICK r \in Requests : r = serving.from
    BY <1>3
  <1>6. pc[r] = "get" /\ reply[r] = NoReply
    BY <1>3, <1>4, <1>5 DEF Sound, Awaits
  <1>7. \A q \in Requests \ {r} : Borrows(q)' <=> Borrows(q)
    BY <1>2, <1>4, <1>5 DEF Borrows
  <1>8. ~Borrows(r)
    BY <1>1, <1>3, <1>5, <1>6 DEF Borrows
  <1>9. Borrows(r)' <=> slot[k] # "InUse"
    BY <1>1, <1>2, <1>4, <1>5, <1>6 DEF Borrows
  <1>10. /\ slot' = [slot EXCEPT ![k] = "InUse"] /\ holder' = [holder EXCEPT ![k] = NewHolder]
         /\ slot \in [Kinds -> {"NotInited", "Available", "InUse"}] /\ holder \in [Kinds -> Holders]
    BY <1>4 DEF LendsHolder, IInv, TypeOK
  <1> HIDE DEF k
  <1>11. /\ slot'[k] = "InUse" /\ holder'[k] = NewHolder
         /\ \A j \in Kinds \ {k} : slot'[j] = slot[j] /\ holder'[j] = holder[j]
    BY <1>4, <1>10
  <1>12. /\ OwnerInv'
         /\ \/ /\ slot[k] = "InUse"
               /\ \A q \in Requests : Borrows(q)' <=> Borrows(q)
            \/ /\ \A q \in Requests : ~Borrows(q)
               /\ \E b \in Requests : \A q \in Requests : Borrows(q)' <=> q = b
    <2>1. CASE slot[k] = "InUse"
      <3>1. \A q \in Requests : Borrows(q)' <=> Borrows(q)
        BY <1>7, <1>8, <1>9, <2>1
      <3>2. QED
        BY <1>2, <1>11, <2>1, <3>1 DEF IInv, OwnerInv, k
    <2>2. CASE slot[k] # "InUse"
      <3>1. \A q \in Requests : ~Borrows(q)
        BY <2>2 DEF IInv, OwnerInv, k
      <3>2. \A q \in Requests : Borrows(q)' <=> q = r
        BY <1>7, <1>9, <2>2, <3>1
      <3>3. OwnerInv'
        BY <1>2, <1>11, <2>2, <3>2 DEF IInv, OwnerInv, k
      <3>4. QED
        BY <3>1, <3>2, <3>3
    <2>3. QED
      BY <2>1, <2>2
  <1>13. QED
    BY <1>3, <1>4, <1>12 DEF IInv, k

LEMMA TakesHolderBackKeeps ==
    ASSUME IInv, TypeOK', TakesHolderBack, plan' = plan
    PROVE  /\ IInv' /\ Head(requests).kind = plan.kind /\ slot[plan.kind] = "InUse"
           /\ \E r \in Requests : Borrows(r)
           /\ \A r \in Requests : ~Borrows(r)'
  <1> USE DEF taskVars, loopVars, searchVars
  <1> DEFINE m == Head(requests)
             k == plan.kind
  <1>1. /\ Serves("Set") /\ ~IsAnswered(m) /\ m.cmd = "Set"
        /\ UNCHANGED <<plan, pc, api, outbox, serving, answer, stateLoop>>
    BY DEF TakesHolderBack, Serves, IsAnswered
  <1>2. m \in Messages /\ Sound(m) /\ m.from # None /\ m.kind = k /\ k \in Kinds
    BY <1>1, RequestTaken, KindOfPlan DEF Sound, IInv
  <1>3. PICK r \in Requests : r = m.from
    BY <1>2 DEF Messages
  <1>4. pc[r] \in {"putBack", "put", "fail", "cancel"} /\ reply[r] = NoReply
    BY <1>1, <1>2, <1>3 DEF Sound, Awaits
  <1>5. Borrows(r) /\ slot[k] = "InUse"
    BY <1>4 DEF Borrows, IInv, OwnerInv
  <1>6. /\ reply' = [reply EXCEPT ![r] = Yes]
        /\ slot' = [slot EXCEPT ![k] = IF m.some THEN "Available" ELSE "NotInited"]
        /\ holder' = [holder EXCEPT ![k] = m.holder]
    BY <1>2, <1>3, <1>5 DEF TakesHolderBack, Answers
  <1>7. /\ reply'[r] = Yes /\ \A q \in Requests \ {r} : reply'[q] = reply[q]
        /\ slot'[k] # "InUse" /\ \A j \in Kinds \ {k} : slot'[j] = slot[j] /\ holder'[j] = holder[j]
    BY <1>2, <1>6 DEF IInv, TypeOK
  <1>8. LineInv' /\ ServiceInv'
    BY <1>1, <1>3, <1>7, ServesKeeps
  <1>9. ReplyInv'
    BY <1>1, <1>7 DEF IInv, ReplyInv, Yes, Reply
  <1>10. ~Borrows(r)'
    <2>1. serving.cmd = "Get" => serving.from # r
      BY <1>3, <1>4, <1>2 DEF IInv, ServiceInv, IsAnswered, Sound, Awaits
    <2>2. QED
      BY <1>1, <1>4, <1>7, <2>1 DEF Borrows, Yes, NoReply, Reply
  <1>11. \A q \in Requests \ {r} : ~Borrows(q)
    BY <1>5 DEF IInv, OwnerInv
  <1>12. \A q \in Requests : ~Borrows(q)'
    <2>1. \A q \in Requests \ {r} : Borrows(q)' <=> Borrows(q)
      BY <1>1, <1>7 DEF Borrows
    <2>2. QED
      BY <1>10, <1>11, <2>1
  <1>13. OwnerInv'
    BY <1>1, <1>7, <1>12 DEF IInv, OwnerInv
  <1>14. QED
    BY <1>2, <1>5, <1>8, <1>9, <1>12, <1>13 DEF IInv

LEMMA DropsHolderKeeps ==
    ASSUME IInv, TypeOK', DropsHolder, plan' = plan
    PROVE  IInv' /\ \A r \in Requests : Borrows(r)' <=> Borrows(r)
  <1> USE DEF taskVars, searchVars
  <1> DEFINE m == Head(requests)
             k == m.kind
             a == IF slot[k] = "InUse" THEN No ELSE Yes
  <1>1. /\ Serves("Drop") /\ m.cmd = "Drop" /\ m \in Messages /\ Sound(m) /\ k \in Kinds
        /\ UNCHANGED <<plan, pc, api, outbox, serving, stateLoop>>
    <2>1. Serves("Drop")
      BY DEF DropsHolder
    <2>2. m \in Messages /\ Sound(m) /\ m.cmd = "Drop"
      BY <2>1, RequestTaken DEF IInv, DropsHolder
    <2>3. QED
      BY <2>1, <2>2 DEF DropsHolder, Messages
  <1>2. /\ a.status \in {"ok", "refused"}
        /\ \/ slot[k] = "InUse" /\ UNCHANGED <<slot, holder>>
           \/ /\ slot[k] # "InUse"
              /\ slot' = [slot EXCEPT ![k] = "NotInited"]
              /\ holder' = [holder EXCEPT ![k] = NewHolder]
    BY DEF DropsHolder, Yes, No, Reply
  <1>3. /\ LineInv' /\ ServiceInv' /\ ReplyInv'
        /\ \A r \in Requests : Borrows(r)' <=> Borrows(r)
    <2>1. CASE k = "regular"
      <3>1. answer' = a /\ reply' = reply /\ IsAnswered(m)
        BY <1>1, <2>1 DEF DropsHolder, IsAnswered
      <3>2. /\ LineInv' /\ ServiceInv' /\ ReplyInv' /\ serving = m
        BY <1>1, <1>2, <3>1, AnswersLoop
      <3>3. \A r \in Requests : Borrows(r)' <=> Borrows(r)
        BY <1>1, <3>1, <3>2 DEF Borrows
      <3>4. QED
        BY <3>2, <3>3
    <2>2. CASE k # "regular"
      <3>1. answer' = answer /\ Answers(m.from, a) /\ ~IsAnswered(m)
        BY <1>1, <2>2 DEF DropsHolder, IsAnswered
      <3>2. \A r \in Requests : r # m.from => reply'[r] = reply[r]
        BY <3>1 DEF Answers, IInv, TypeOK
      <3>3. LineInv' /\ ServiceInv'
        BY <1>1, <3>1, <3>2, ServesKeeps
      <3>4. ASSUME NEW r \in Requests, r = m.from
            PROVE  /\ reply'[r] = a /\ reply[r] = NoReply
                   /\ pc[r] \in {"clearing", "dropping", "failDrop", "cancelDrop", "tick"}
                   /\ serving.cmd = "Get" => serving.from # r
        <4>1. r # None
          BY ConstantsAssumption
        <4>2. reply'[r] = a
          BY <3>1, <3>4, <4>1 DEF Answers, IInv, TypeOK
        <4>3. /\ reply[r] = NoReply
              /\ pc[r] \in {"clearing", "dropping", "failDrop", "cancelDrop", "tick"}
          BY <1>1, <3>4, <4>1 DEF Sound, Awaits
        <4>4. serving.cmd = "Get" => serving.from # r
          BY <4>1, <4>3 DEF IInv, ServiceInv, IsAnswered, Sound, Awaits
        <4>5. QED
          BY <4>2, <4>3, <4>4
      <3> HIDE DEF a
      <3>5. ReplyInv'
        BY <1>1, <1>2, <3>2, <3>4 DEF IInv, ReplyInv
      <3>6. \A r \in Requests : Borrows(r)' <=> Borrows(r)
        <4>1. ASSUME NEW r \in Requests, r = m.from PROVE Borrows(r)' <=> Borrows(r)
          <5>1. /\ pc'[r] \in {"clearing", "dropping", "failDrop", "cancelDrop", "tick"}
                /\ pc'[r] = pc[r] /\ serving' = serving
                /\ serving.cmd = "Get" => serving.from # r
            BY <1>1, <3>4, <4>1
          <5>2. QED
            BY <5>1 DEF Borrows
        <4>2. ASSUME NEW r \in Requests, r # m.from PROVE Borrows(r)' <=> Borrows(r)
          <5>1. reply'[r] = reply[r]
            BY <3>2, <4>2
          <5>2. QED
            BY <1>1, <3>1, <5>1 DEF Borrows
        <4>3. QED
          BY <4>1, <4>2
      <3>7. QED
        BY <3>3, <3>5, <3>6
    <2>3. QED
      BY <2>1, <2>2
  <1>4. OwnerInv'
    <2>1. /\ slot'[plan.kind] = "InUse" <=> slot[plan.kind] = "InUse"
          /\ \A j \in Kinds : slot'[j] # "NotInited" => slot[j] # "NotInited"
          /\ \A j \in Kinds : slot'[j] = "InUse" => slot[j] = "InUse" /\ holder'[j] = holder[j]
      <3>1. DOMAIN slot = Kinds /\ DOMAIN holder = Kinds /\ plan.kind \in Kinds
        BY KindOfPlan DEF IInv, TypeOK
      <3>2. CASE UNCHANGED <<slot, holder>>
        BY <3>1, <3>2
      <3>3. CASE /\ slot[k] # "InUse" /\ slot' = [slot EXCEPT ![k] = "NotInited"]
                 /\ holder' = [holder EXCEPT ![k] = NewHolder]
        <4>1. \A j \in Kinds : /\ slot'[j] = IF j = k THEN "NotInited" ELSE slot[j]
                               /\ j # k => holder'[j] = holder[j]
          BY <3>1, <3>3
        <4>2. QED
          BY <3>1, <3>3, <4>1
      <3>4. QED
        BY <1>2, <3>2, <3>3
    <2>2. QED
      BY <1>1, <1>3, <2>1 DEF IInv, OwnerInv
  <1>5. QED
    BY <1>3, <1>4 DEF IInv

\* Every step of the searchers keeps the invariant.
LEMMA SearchersKeep ==
    ASSUME IInv, Searchers, plan' = plan
    PROVE  IInv'
  <1>1. TypeOK'
    BY SearchersType DEF IInv
  <1>2. CASE Responds
    <2>1. UNCHANGED <<plan, pc, reply, api, requests, stateLoop, serving, outbox, answer,
                      slot, holder>>
      BY <1>2 DEF Responds, taskVars, loopVars, searchVars
    <2>2. QED
      BY <1>1, <2>1, QuietKeeps
  <1>3. QED
    BY <1>1, <1>2, UpdateKeeps, LendsHolderKeeps, TakesHolderBackKeeps, DropsHolderKeeps
       DEF Searchers

-----------------------------------------------------------------------------
(* The theorems.                                                           *)

LEMMA InitInv == Init => IInv
  <1> SUFFICES ASSUME Init PROVE IInv
    OBVIOUS
  <1>1. TypeOK
    BY InitType
  <1>2. DOMAIN Line = {}
    <2>1. Len(requests) = 0 /\ Len(outbox) = 0 /\ Len(api) = 0
      BY DEF Init
    <2>2. QED
      BY <1>1, <2>1, InLine
  <1>3. ~IsAnswered(serving) /\ serving.cmd # "Get"
    BY MessageParts DEF Init, Nothing, IsAnswered
  <1>4. LineInv /\ ReplyInv /\ ServiceInv
    <2>1. \A r \in Requests : reply[r] = NoReply /\ NoReply.status = "none"
      BY DEF Init, NoReply, Reply
    <2>2. QED
      BY <1>2, <1>3, <2>1 DEF Init, LineInv, ReplyInv, ServiceInv, NoReply, Reply
  <1>5. \A r \in Requests : ~Borrows(r)
    BY <1>3 DEF Init, Borrows
  <1>6. OwnerInv
    <2>1. \A k \in Kinds : slot[k] = "NotInited"
      BY DEF Init
    <2>2. QED
      BY <1>1, <1>5, <2>1, KindOfPlan DEF OwnerInv
  <1>7. QED
    BY <1>1, <1>4, <1>6 DEF IInv

LEMMA NextInv == IInv /\ [Next]_<<plan, vars>> => IInv'
  <1> SUFFICES ASSUME IInv, [Next]_<<plan, vars>> PROVE IInv'
    OBVIOUS
  <1> USE DEF taskVars, chanVars, loopVars, searchVars, viewVars, fileVars, Elsewhere
  <1>1. TypeOK'
    BY NextType DEF IInv
  <1>2. CASE UNCHANGED <<plan, vars>>
    <2>1. /\ UNCHANGED <<plan, pc, reply, api, requests, stateLoop, serving, outbox, answer, slot>>
          /\ holder' = holder
      BY <1>2 DEF vars
    <2>2. QED
      BY <1>1, <2>1, QuietKeeps
  <1>3. CASE \E r \in Requests : Task(r) /\ plan' = plan
    BY <1>3, TaskKeeps
  <1>4. CASE \E r \in Requests : (BackgroundEnds(r) \/ Cancelled(r)) /\ plan' = plan
    <2>1. /\ UNCHANGED <<plan, pc, reply, api, requests, stateLoop, serving, outbox, answer, slot>>
          /\ holder' = holder
      BY <1>4 DEF BackgroundEnds, Cancelled
    <2>2. QED
      BY <1>1, <2>1, QuietKeeps
  <1>5. CASE Produces /\ plan' = plan
    BY <1>5, ProducesKeeps
  <1>6. CASE State /\ plan' = plan
    BY <1>6, StateKeeps
  <1>7. CASE Searchers /\ plan' = plan
    BY <1>7, SearchersKeep
  <1>8. QED
    BY <1>2, <1>3, <1>4, <1>5, <1>6, <1>7 DEF Next

\* The types, the line of messages, what is served and who borrows: the whole
\* invariant holds in every behaviour.
THEOREM Invariant == Spec => []IInv
  <1>1. Spec => Init /\ [][Next]_<<plan, vars>>
    BY DEF Spec
  <1>2. QED
    BY <1>1, InitInv, NextInv, PTL

LEMMA BorrowersCount ==
    ASSUME TypeOK, OwnerInv, NEW k \in Kinds
    PROVE  /\ slot[k] # "InUse" => Borrowers(k) = {}
           /\ \/ Borrowers(k) = {}
              \/ \E r \in Requests : Borrowers(k) = {r} /\ Borrows(r) /\ k = plan.kind
           /\ stateLoop # "failed" /\ slot[k] = "InUse" => Borrowers(k) # {}
  <1>1. \A r \in Requests : KindOf(r) = plan.kind
    BY KindOfPlan
  <1>2. CASE \E r \in Requests : Borrows(r) /\ k = plan.kind
    <2>1. PICK r \in Requests : Borrows(r) /\ k = plan.kind
      BY <1>2
    <2>2. Borrowers(k) = {r}
      BY <1>1, <2>1 DEF Borrowers, OwnerInv
    <2>3. slot[k] = "InUse"
      BY <2>1 DEF OwnerInv
    <2>4. QED
      BY <2>1, <2>2, <2>3
  <1>3. CASE ~ \E r \in Requests : Borrows(r) /\ k = plan.kind
    <2>1. Borrowers(k) = {}
      BY <1>1, <1>3 DEF Borrowers
    <2>2. stateLoop # "failed" => slot[k] # "InUse"
      BY <1>3 DEF OwnerInv
    <2>3. QED
      BY <2>1, <2>2
  <1>4. QED
    BY <1>2, <1>3

LEMMA OneOwner == IInv => HolderHasOneOwner
  <1> SUFFICES ASSUME IInv PROVE HolderHasOneOwner
    OBVIOUS
  <1>1. ASSUME stateLoop # "failed", NEW k \in Kinds
        PROVE  Cardinality(Borrowers(k)) = (IF slot[k] = "InUse" THEN 1 ELSE 0)
    <2>1. CASE Borrowers(k) = {}
      <3>1. slot[k] # "InUse"
        BY <1>1, <2>1, BorrowersCount DEF IInv
      <3>2. QED
        BY <2>1, <3>1, FS_EmptySet
    <2>2. CASE Borrowers(k) # {}
      <3>1. PICK r \in Requests : Borrowers(k) = {r}
        BY <2>2, BorrowersCount DEF IInv
      <3>2. slot[k] = "InUse"
        BY <2>2, BorrowersCount DEF IInv
      <3>3. QED
        BY <3>1, <3>2, FS_Singleton
    <2>3. QED
      BY <2>1, <2>2
  <1>2. QED
    BY <1>1 DEF HolderHasOneOwner, IInv, ReplyInv

\* A lent holder is with exactly one command and none that is brought back is
\* refused, for any number of commands in any order, of rows, of attempts and
\* of slots in the channels.
THEOREM HolderOwned == Spec => []HolderHasOneOwner
  BY Invariant, OneOwner, PTL

-----------------------------------------------------------------------------
(* The handover of the regular holder.                                     *)

\* Who owns the regular holder, and where it is.
OwnerFacts ==
    /\ Owner("regular") \in Requests \cup {None}
    /\ Owner("regular") = None <=> (plan.kind = "regular" => \A r \in Requests : ~Borrows(r))
    /\ \A r \in Requests : plan.kind = "regular" /\ Borrows(r) => Owner("regular") = r
    /\ slot["regular"] # "InUse" => Owner("regular") = None
    /\ holder["regular"].upTo \in Nat

LEMMA OwnerIs == IInv => OwnerFacts
  <1> SUFFICES ASSUME IInv PROVE OwnerFacts
    OBVIOUS
  <1> DEFINE k == "regular"
  <1>1. k \in Kinds /\ TypeOK /\ OwnerInv
    BY DEF Kinds, IInv
  <1>2. holder[k].upTo \in Nat
    <2>1. holder[k] \in Holders
      BY <1>1 DEF TypeOK
    <2>2. QED
      BY <2>1 DEF Holders
  <1>3. \A r \in Requests : r \in Borrowers(k) <=> plan.kind = k /\ Borrows(r)
    BY <1>1, KindOfPlan DEF Borrowers
  <1>4. CASE Borrowers(k) = {}
    <2>1. Owner(k) = None
      BY <1>4 DEF Owner
    <2>2. QED
      BY <1>2, <1>3, <1>4, <2>1 DEF OwnerFacts
  <1>5. CASE Borrowers(k) # {}
    <2>1. PICK r \in Requests : Borrowers(k) = {r} /\ Borrows(r) /\ k = plan.kind
      BY <1>1, <1>5, BorrowersCount
    <2>2. Owner(k) = r
      BY <2>1 DEF Owner
    <2>3. slot[k] = "InUse"
      BY <1>1, <1>5, BorrowersCount
    <2>4. QED
      BY <1>2, <1>3, <2>1, <2>2, <2>3, ConstantsAssumption DEF OwnerFacts
  <1>6. QED
    BY <1>4, <1>5

\* While no command comes by a holder and the regular one stays where it is,
\* it is kept or brought back.
LEMMA KeptOrReturned ==
    ASSUME OwnerFacts, OwnerFacts', NobodyBorrows, plan' = plan,
           holder'["regular"].upTo = holder["regular"].upTo
    PROVE  [Regular!Next]_(Regular!vars)
  <1>1. CASE Owner("regular")' = None /\ Owner("regular") # None
    <2>1. PICK b \in Requests : b = Owner("regular")
      BY <1>1 DEF OwnerFacts
    <2>2. Regular!Return(b)
      BY <1>1, <2>1 DEF Regular!Return, OwnerFacts
    <2>3. QED
      BY <2>2 DEF Regular!Next
  <1>2. CASE Owner("regular")' # None
    <2>1. PICK r \in Requests : plan.kind = "regular" /\ Borrows(r)'
      BY <1>2 DEF OwnerFacts
    <2>2. Owner("regular")' = r /\ Owner("regular") = r
      BY <2>1 DEF OwnerFacts, NobodyBorrows
    <2>3. QED
      BY <2>2 DEF Regular!vars
  <1>3. CASE Owner("regular")' = None /\ Owner("regular") = None
    BY <1>3 DEF Regular!vars
  <1>4. QED
    BY <1>1, <1>2, <1>3

LEMMA SearchersHandOver ==
    ASSUME IInv, OwnerFacts, OwnerFacts', Searchers, plan' = plan
    PROVE  [Regular!Next]_(Regular!vars)
  <1> USE DEF taskVars, loopVars, searchVars
  <1> DEFINE k == "regular"
             O == Owner("regular")
  <1>1. /\ TypeOK /\ TypeOK' /\ k \in Kinds /\ plan.kind \in Kinds
        /\ holder \in [Kinds -> Holders]
    BY SearchersType, KindOfPlan DEF IInv, Kinds, TypeOK
  <1>2. CASE SearchesOn
    <2> DEFINE j == Head(requests).kind
               n == Head(requests).upTo
    <2>1. NobodyBorrows
      BY <1>1, <1>2, UpdateKeeps
    <2>2. CASE holder'[k] = holder[k]
      BY <2>1, <2>2, KeptOrReturned
    <2>3. CASE holder'[k] # holder[k]
      <3>1. slot[k] = "Available" /\ holder'[k] = Advanced(holder[k], n) /\ ~Idles(holder[k], n)
        BY <1>1, <1>2, <2>3 DEF SearchesOn
      <3>2. O = None /\ O' = None
        <4>1. O = None
          BY <3>1 DEF OwnerFacts
        <4>2. QED
          BY <2>1, <4>1 DEF OwnerFacts, NobodyBorrows
      <3>3. holder'[k].upTo = n /\ n > holder[k].upTo
        <4>1. Head(requests) \in Messages
          BY <1>2, RequestTaken DEF IInv, SearchesOn
        <4>2. n \in Nat /\ holder[k] \in Holders /\ holder[k].upTo \in Nat
          BY <1>1, <4>1 DEF Messages, Holders
        <4>3. QED
          BY <3>1, <4>2 DEF Advanced, Idles, Holders
      <3>4. QED
        BY <3>2, <3>3 DEF Regular!Next, Regular!Extend
    <2>4. QED
      BY <2>2, <2>3
  <1>3. CASE SkipsUpdate \/ Responds
    <2>1. /\ holder' = holder
          /\ UNCHANGED <<pc, reply, serving, answer>>
      BY <1>3 DEF SkipsUpdate, Responds
    <2>2. NobodyBorrows
      BY <2>1 DEF NobodyBorrows, Borrows
    <2>3. QED
      BY <2>1, <2>2, KeptOrReturned
  <1>4. CASE LendsHolder
    <2>1. /\ Head(requests).kind = plan.kind
          /\ \/ /\ slot[plan.kind] = "InUse"
                /\ \A q \in Requests : Borrows(q)' <=> Borrows(q)
             \/ /\ \A q \in Requests : ~Borrows(q)
                /\ \E r \in Requests : \A q \in Requests : Borrows(q)' <=> q = r
      BY <1>1, <1>4, LendsHolderKeeps
    <2>2. holder' = [holder EXCEPT ![plan.kind] = NewHolder]
      BY <1>4, <2>1 DEF LendsHolder
    <2>3. CASE plan.kind # k
      <3>1. O = None /\ O' = None /\ holder'[k] = holder[k]
        BY <1>1, <2>2, <2>3 DEF OwnerFacts
      <3>2. QED
        BY <3>1 DEF Regular!vars
    <2>4. CASE plan.kind = k /\ slot[k] = "InUse" /\ \A q \in Requests : Borrows(q)' <=> Borrows(q)
      <3>1. holder'[k] = holder[k]
        BY <1>1, <2>2, <2>4 DEF IInv, OwnerInv
      <3>2. NobodyBorrows
        BY <2>4 DEF NobodyBorrows
      <3>3. QED
        BY <3>1, <3>2, KeptOrReturned
    <2>5. CASE /\ plan.kind = k
               /\ \A q \in Requests : ~Borrows(q)
               /\ \E r \in Requests : \A q \in Requests : Borrows(q)' <=> q = r
      <3>1. PICK r \in Requests : \A q \in Requests : Borrows(q)' <=> q = r
        BY <2>5
      <3>2. O = None /\ O' = r
        BY <2>5, <3>1 DEF OwnerFacts
      <3>3. holder'[k].upTo = 0
        BY <1>1, <2>2, <2>5 DEF NewHolder
      <3>4. Regular!Borrow(r)
        BY <3>2, <3>3 DEF Regular!Borrow
      <3>5. QED
        BY <3>4 DEF Regular!Next
    <2>6. QED
      BY <2>1, <2>3, <2>4, <2>5
  <1>5. CASE TakesHolderBack
    <2>1. /\ Head(requests).kind = plan.kind /\ slot[plan.kind] = "InUse"
          /\ \E r \in Requests : Borrows(r)
          /\ \A r \in Requests : ~Borrows(r)'
      BY <1>1, <1>5, TakesHolderBackKeeps
    <2>2. CASE plan.kind # k
      <3>1. O = None /\ O' = None
        BY <2>2 DEF OwnerFacts
      <3>2. holder'[k] = holder[k]
        BY <1>1, <1>5, <2>1, <2>2 DEF TakesHolderBack
      <3>3. QED
        BY <3>1, <3>2 DEF Regular!vars
    <2>3. CASE plan.kind = k
      <3>1. PICK r \in Requests : O = r
        BY <2>1, <2>3 DEF OwnerFacts
      <3>2. O' = None
        BY <2>1 DEF OwnerFacts
      <3>3. Regular!Return(r)
        BY <3>1, <3>2 DEF Regular!Return, OwnerFacts
      <3>4. QED
        BY <3>3 DEF Regular!Next
    <2>4. QED
      BY <2>2, <2>3
  <1>6. CASE DropsHolder
    <2>1. \A r \in Requests : Borrows(r)' <=> Borrows(r)
      BY <1>1, <1>6, DropsHolderKeeps
    <2>2. NobodyBorrows
      BY <2>1 DEF NobodyBorrows
    <2>3. CASE holder'[k] = holder[k]
      BY <2>2, <2>3, KeptOrReturned
    <2>4. CASE holder'[k] # holder[k]
      <3>1. slot[k] # "InUse" /\ holder'[k] = NewHolder
        BY <1>1, <1>6, <2>4 DEF DropsHolder
      <3>2. O = None
        BY <3>1 DEF OwnerFacts
      <3>3. O' = None
        BY <2>2, <3>2 DEF OwnerFacts, NobodyBorrows
      <3>4. holder'[k].upTo = 0
        BY <3>1 DEF NewHolder
      <3>5. QED
        BY <3>2, <3>3, <3>4 DEF Regular!Next, Regular!Reset
    <2>5. QED
      BY <2>3, <2>4
  <1>7. QED
    BY <1>2, <1>3, <1>4, <1>5, <1>6 DEF Searchers

LEMMA StepHandsOver ==
    IInv /\ OwnerFacts /\ OwnerFacts' /\ [Next]_<<plan, vars>> => [Regular!Next]_(Regular!vars)
  <1> SUFFICES ASSUME IInv, OwnerFacts, OwnerFacts', [Next]_<<plan, vars>>
               PROVE  [Regular!Next]_(Regular!vars)
    OBVIOUS
  <1> USE DEF taskVars, chanVars, loopVars, searchVars, viewVars, fileVars, Elsewhere
  <1>1. ASSUME holder' = holder, NobodyBorrows, plan' = plan
        PROVE  [Regular!Next]_(Regular!vars)
    BY <1>1, KeptOrReturned
  <1>2. CASE UNCHANGED <<plan, vars>>
    <2>1. NobodyBorrows
      BY <1>2 DEF vars, NobodyBorrows, Borrows
    <2>2. QED
      BY <1>1, <1>2, <2>1 DEF vars
  <1>3. CASE \E r \in Requests : Task(r) /\ plan' = plan
    <2>1. PICK r \in Requests : Task(r) /\ plan' = plan
      BY <1>3
    <2>2. NobodyBorrows
      BY <2>1, TaskKeeps
    <2>3. holder' = holder
      BY <2>1 DEF Task, Starts, Dropped, NotDropped, DropsAgain, LenKnown, SearchSpawned,
                  PutsBack, ResultTaken, Ticks, TickAnswered, CancelSeen, HolderReturned,
                  TaskEnds
    <2>4. QED
      BY <1>1, <2>1, <2>2, <2>3
  <1>4. CASE \E r \in Requests : (BackgroundEnds(r) \/ Cancelled(r)) /\ plan' = plan
    <2>1. holder' = holder /\ UNCHANGED <<pc, reply, serving, answer, plan>>
      BY <1>4 DEF BackgroundEnds, Cancelled
    <2>2. NobodyBorrows
      BY <2>1 DEF NobodyBorrows, Borrows
    <2>3. QED
      BY <1>1, <2>1, <2>2
  <1>5. CASE Produces /\ plan' = plan
    BY <1>1, <1>5, ProducesKeeps DEF Produces
  <1>6. CASE State /\ plan' = plan
    <2>1. holder' = holder
      BY <1>6 DEF State, TakesWrite, TakesForward, TakesLen, TakesMatches, TakesClear,
                  ClearUnheard, SendsRequest, WriteServed, SetForwarded, ValuesDropped,
                  DropServed, GetServed, TakesResponse
    <2>2. QED
      BY <1>1, <1>6, <2>1, StateKeeps
  <1>7. CASE Searchers /\ plan' = plan
    BY <1>7, SearchersHandOver
  <1>8. QED
    BY <1>2, <1>3, <1>4, <1>5, <1>6, <1>7 DEF Next

LEMMA InitHandsOver == Init => Regular!Init
  <1> SUFFICES ASSUME Init PROVE Regular!Init
    OBVIOUS
  <1>1. OwnerFacts
    BY InitInv, OwnerIs
  <1>2. slot["regular"] = "NotInited" /\ holder["regular"].upTo = 0
    BY DEF Init, Kinds, NewHolder
  <1>3. QED
    BY <1>1, <1>2 DEF OwnerFacts, Regular!Init

\* The commands, the state loop and the searchers implement the handover of
\* the regular holder: an update never moves a holder that is lent, a holder
\* is lent once at a time, and one at home never moves back without a reset.
THEOREM Handover == Spec => RegularHandover
  <1>1. Spec => Init /\ [][Next]_<<plan, vars>> /\ []IInv
    BY Invariant, PTL DEF Spec
  <1>2. QED
    BY <1>1, OwnerIs, InitHandsOver, StepHandsOver, PTL DEF RegularHandover, Regular!Spec
-----------------------------------------------------------------------------
(* Rows: what is shown, what waits to be shown, and how far a holder has   *)
(* read.                                                                   *)

Has(q, e) == \E i \in DOMAIN q : q[i] = e

\* r is through with its search and has sent the holder back, if ever.
GaveBack(r) ==
    /\ pc[r] \in {"put", "fail", "show", "failDrop", "done", "failed"}
    /\ background[r] # "running"

\* A message between the commands and the searchers.
OnItsWay(m) == Has(requests, m) \/ Has(outbox, m) \/ Has(api, m)

\* The holder of the plan's kind is h: at home, on its way to a command or on
\* its way back.  (What a search makes of it meanwhile is its own.)
Located(h) ==
    \/ slot[plan.kind] # "InUse" /\ h = holder[plan.kind]
    \/ serving.cmd = "Get" /\ answer.status = "ok" /\ h = answer.holder
    \/ \E r \in Requests : pc[r] = "get" /\ reply[r].status = "ok" /\ h = reply[r].holder
    \/ \E m \in Messages : OnItsWay(m) /\ m.cmd = "Set" /\ h = m.holder

\* The extensions the searchers have found, the oldest first.
Queue == responses \o pending

Shown(e)  == Has(matches[plan.kind], e)
Queued(e) == \E i \in DOMAIN Queue : Has(Queue[i].matches, e)

Early == {"new", "clearing", "dropping", "retry", "len", "get"}

\* What a full search has found are rows its holder has passed since.
SearchInvOf(r) ==
    /\ pc[r] \in Early => background[r] = "none" /\ found[r] = <<>>
    /\ pc[r] \in {"put", "show"} => background[r] = "found"
    /\ background[r] # "none" => held[r].by = r
    /\ \A i \in DOMAIN found[r] : found[r][i].by = r /\ found[r][i].row <= held[r].upTo
    /\ \A i, j \in DOMAIN found[r] : found[r][i] = found[r][j] => i = j
SearchInv == \A r \in Requests : SearchInvOf(r)

\* A holder carries the filters of a search that is through and has not moved
\* back since; it has passed every match of that search there is.
PositionInv ==
    /\ \A h \in Holders : Located(h) /\ h.by # None =>
          GaveBack(h.by) /\ held[h.by].upTo <= h.upTo
    /\ \A e \in Matches : Shown(e) \/ Queued(e) => GaveBack(e.by)
    /\ \A e \in Matches, h \in Holders :
          (Shown(e) \/ Queued(e)) /\ Located(h) /\ e.by = h.by => e.row <= h.upTo
    /\ \A e \in Matches : Queued(e) => held[e.by].upTo < e.row

\* No match is shown or waits to be shown twice.
DistinctInv ==
    /\ \A k \in Kinds : k # plan.kind => matches[k] = <<>>
    /\ \A i \in DOMAIN Queue : Queue[i].kind = plan.kind
    /\ \A i, j \in DOMAIN matches[plan.kind] :
          matches[plan.kind][i] = matches[plan.kind][j] => i = j
    /\ \A i, j \in DOMAIN Queue : \A x \in DOMAIN Queue[i].matches, y \in DOMAIN Queue[j].matches :
          Queue[i].matches[x] = Queue[j].matches[y] => i = j /\ x = y
    /\ \A e \in Matches : ~(Shown(e) /\ Queued(e))

RowInv == SearchInv /\ PositionInv /\ DistinctInv

\* The elements of a sequence.
LEMMA HasParts ==
    ASSUME NEW S, NEW q \in Seq(S), NEW e
    PROVE  /\ Has(q, e) => e \in S
           /\ ~Has(<<>>, e)
           /\ q # <<>> => Has(q, Head(q))
           /\ q # <<>> /\ Has(Tail(q), e) => Has(q, e)
           /\ q # <<>> /\ Has(q, e) => e = Head(q) \/ Has(Tail(q), e)
  <1>1. DOMAIN q = 1..Len(q) /\ Len(q) \in Nat /\ \A i \in 1..Len(q) : q[i] \in S
    BY LenProperties
  <1>2. Has(q, e) => e \in S
    BY <1>1 DEF Has
  <1>3. ~Has(<<>>, e)
    BY DEF Has
  <1>4. ASSUME q # <<>>
        PROVE  /\ Has(q, Head(q)) /\ (Has(Tail(q), e) => Has(q, e))
               /\ Has(q, e) => e = Head(q) \/ Has(Tail(q), e)
    <2> DEFINE t == Tail(q)
    <2>1. /\ t \in Seq(S) /\ Len(t) = Len(q) - 1 /\ Len(q) \in Nat \ {0}
          /\ \A i \in 1..Len(t) : t[i] = q[i + 1]
          /\ Head(q) = q[1]
      BY <1>4, HeadTailProperties, LenProperties, EmptySeq
    <2>2. DOMAIN t = 1..Len(t)
      BY <2>1, LenProperties
    <2> HIDE DEF t
    <2>3. Has(q, Head(q))
      BY <1>1, <2>1 DEF Has
    <2>4. ASSUME Has(t, e) PROVE Has(q, e)
      <3>1. PICK i \in 1..Len(t) : t[i] = e
        BY <2>2, <2>4 DEF Has
      <3>2. i + 1 \in 1..Len(q) /\ q[i + 1] = e
        BY <2>1, <3>1
      <3>3. QED
        BY <1>1, <3>2 DEF Has
    <2>5. ASSUME Has(q, e) PROVE e = Head(q) \/ Has(t, e)
      <3>1. PICK i \in 1..Len(q) : q[i] = e
        BY <1>1, <2>5 DEF Has
      <3>2. CASE i = 1
        BY <2>1, <3>1, <3>2
      <3>3. CASE i # 1
        <4> DEFINE j == i - 1
        <4>1. j \in 1..Len(t) /\ i = j + 1
          BY <2>1, <3>1, <3>3
        <4> HIDE DEF j
        <4>2. t[j] = q[j + 1]
          BY <2>1, <4>1
        <4>3. QED
          BY <2>2, <3>1, <4>1, <4>2 DEF Has
      <3>4. QED
        BY <3>2, <3>3
    <2>6. QED
      BY <2>3, <2>4, <2>5 DEF t
  <1>5. QED
    BY <1>2, <1>3, <1>4

LEMMA HasConcat ==
    ASSUME NEW S, NEW a \in Seq(S), NEW b \in Seq(S), NEW e
    PROVE  Has(a \o b, e) <=> Has(a, e) \/ Has(b, e)
  <1> DEFINE c == a \o b
  <1>1. /\ DOMAIN a = 1..Len(a) /\ Len(a) \in Nat /\ DOMAIN b = 1..Len(b) /\ Len(b) \in Nat
    BY LenProperties
  <1>2. /\ c \in Seq(S) /\ Len(c) = Len(a) + Len(b)
        /\ \A i \in 1..Len(a) + Len(b) :
             c[i] = IF i <= Len(a) THEN a[i] ELSE b[i - Len(a)]
    BY ConcatProperties
  <1>3. DOMAIN c = 1..Len(a) + Len(b)
    BY <1>2, LenProperties
  <1> HIDE DEF c
  <1>4. ASSUME Has(c, e) PROVE Has(a, e) \/ Has(b, e)
    <2>1. PICK i \in 1..Len(a) + Len(b) : c[i] = e
      BY <1>3, <1>4 DEF Has
    <2>2. CASE i <= Len(a)
      <3>1. i \in 1..Len(a) /\ a[i] = e
        BY <1>1, <1>2, <2>1, <2>2
      <3>2. QED
        BY <1>1, <3>1 DEF Has
    <2>3. CASE ~(i <= Len(a))
      <3>1. i - Len(a) \in 1..Len(b) /\ b[i - Len(a)] = e
        BY <1>1, <1>2, <2>1, <2>3
      <3>2. QED
        BY <1>1, <3>1 DEF Has
    <2>4. QED
      BY <2>2, <2>3
  <1>5. ASSUME Has(a, e) PROVE Has(c, e)
    <2>1. PICK i \in 1..Len(a) : a[i] = e
      BY <1>1, <1>5 DEF Has
    <2>2. i \in 1..Len(a) + Len(b) /\ c[i] = e
      BY <1>1, <1>2, <2>1
    <2>3. QED
      BY <1>3, <2>2 DEF Has
  <1>6. ASSUME Has(b, e) PROVE Has(c, e)
    <2>1. PICK i \in 1..Len(b) : b[i] = e
      BY <1>1, <1>6 DEF Has
    <2> DEFINE j == Len(a) + i
    <2>2. j \in 1..Len(a) + Len(b) /\ ~(j <= Len(a)) /\ j - Len(a) = i
      BY <1>1, <2>1
    <2> HIDE DEF j
    <2>3. c[j] = e
      BY <1>2, <2>1, <2>2
    <2>4. QED
      BY <1>3, <2>2, <2>3 DEF Has
  <1>7. QED
    BY <1>4, <1>5, <1>6 DEF c

LEMMA HasAppend ==
    ASSUME NEW S, NEW q \in Seq(S), NEW x \in S, NEW e
    PROVE  Has(Append(q, x), e) <=> Has(q, e) \/ e = x
  <1> DEFINE s == <<x>>
  <1>1. s \in Seq(S) /\ Append(q, x) = q \o s
    BY AppendIsConcat
  <1>2. Has(s, e) <=> e = x
    BY DEF Has
  <1> HIDE DEF s
  <1>3. Has(q \o s, e) <=> Has(q, e) \/ Has(s, e)
    BY <1>1, HasConcat
  <1>4. QED
    BY <1>1, <1>2, <1>3

\* A message on its way is sound.
LEMMA SoundOnItsWay ==
    ASSUME TypeOK, LineInv, NEW m, OnItsWay(m)
    PROVE  m \in Messages /\ Sound(m)
  <1>1. /\ requests \in Seq(Messages) /\ outbox \in Seq(Messages) /\ api \in Seq(Messages)
        /\ DOMAIN requests = 1..Len(requests) /\ DOMAIN outbox = 1..Len(outbox)
        /\ DOMAIN api = 1..Len(api)
    BY LenProperties DEF TypeOK
  <1>2. m \in Messages
    BY <1>1, HasParts DEF OnItsWay
  <1>3. \E i \in DOMAIN Line : Line[i] = m
    <2>1. CASE Has(requests, m)
      <3>1. PICK i \in 1..Len(requests) : requests[i] = m
        BY <1>1, <2>1 DEF Has
      <3>2. Line[i] = m /\ i \in DOMAIN Line
        BY <3>1, InLine
      <3>3. QED
        BY <3>2
    <2>2. CASE Has(outbox, m)
      <3>1. PICK i \in 1..Len(outbox) : outbox[i] = m
        BY <1>1, <2>2 DEF Has
      <3>2. Line[Len(requests) + i] = m /\ Len(requests) + i \in DOMAIN Line
        BY <3>1, InLine
      <3>3. QED
        BY <3>2
    <2>3. CASE Has(api, m)
      <3>1. PICK i \in 1..Len(api) : api[i] = m
        BY <1>1, <2>3 DEF Has
      <3>2. /\ Line[Len(requests) + Len(outbox) + i] = m
            /\ Len(requests) + Len(outbox) + i \in DOMAIN Line
        BY <3>1, InLine
      <3>3. QED
        BY <3>2
    <2>4. QED
      BY <2>1, <2>2, <2>3 DEF OnItsWay
  <1>4. QED
    BY <1>2, <1>3 DEF LineInv
\* Steps that only pass the holder on, or take away from what is shown.
LEMMA RowsKept ==
    ASSUME TypeOK, TypeOK', PositionInv, DistinctInv, plan' = plan,
           \A k \in Kinds : matches'[k] = matches[k] \/ matches'[k] = <<>>,
           Queue' = Queue,
           \A r \in Requests : GaveBack(r) => GaveBack(r)' /\ held'[r] = held[r],
           \A h \in Holders : Located(h)' =>
              \/ Located(h)
              \/ h.by = None
              \/ h.by \in Requests /\ ~GaveBack(h.by) /\ GaveBack(h.by)' /\ held'[h.by] = h
    PROVE  PositionInv' /\ DistinctInv'
  <1>1. /\ plan.kind \in Kinds
        /\ \A e \in Matches : e.by \in Requests /\ e.row \in Nat
        /\ \A h \in Holders : h.by \in Requests \cup {None} /\ h.upTo \in Nat
        /\ \A r \in Requests : held[r] \in Holders /\ held'[r] \in Holders
    BY KindOfPlan DEF TypeOK, Matches, Holders
  <1>2. /\ \A e \in Matches : Shown(e)' => Shown(e)
        /\ \A e \in Matches : Queued(e)' <=> Queued(e)
    <2>1. \A e : ~Has(<<>>, e)
      BY DEF Has
    <2>2. ASSUME NEW e \in Matches, Shown(e)' PROVE Shown(e)
      <3>1. Has(matches'[plan.kind], e)
        BY <2>2 DEF Shown, Has
      <3>2. QED
        BY <1>1, <2>1, <3>1 DEF Shown
    <2>3. \A e \in Matches : Queued(e)' <=> Queued(e)
      BY DEF Queued, Has
    <2>4. QED
      BY <2>2, <2>3
  <1>3. PositionInv'
    <2>1. ASSUME NEW h \in Holders, Located(h)', h.by # None
          PROVE  GaveBack(h.by)' /\ held'[h.by].upTo <= h.upTo
      BY <1>1, <2>1 DEF PositionInv
    <2>2. \A e \in Matches : Shown(e)' \/ Queued(e)' => GaveBack(e.by)' /\ GaveBack(e.by)
      BY <1>1, <1>2 DEF PositionInv
    <2>3. ASSUME NEW e \in Matches, NEW h \in Holders,
                 Shown(e)' \/ Queued(e)', Located(h)', e.by = h.by
          PROVE  e.row <= h.upTo
      <3>1. GaveBack(h.by) /\ h.by \in Requests /\ h.by # None
        BY <1>1, <2>2, <2>3, ConstantsAssumption
      <3>2. Located(h)
        BY <2>3, <3>1
      <3>3. QED
        BY <1>2, <2>3, <3>2 DEF PositionInv
    <2>4. ASSUME NEW e \in Matches, Queued(e)' PROVE held'[e.by].upTo < e.row
      BY <1>1, <1>2, <2>2, <2>4 DEF PositionInv
    <2>5. QED
      BY <2>1, <2>2, <2>3, <2>4 DEF PositionInv
  <1>4. DistinctInv'
    <2>1. \A k \in Kinds : k # plan'.kind => matches'[k] = <<>>
      BY DEF DistinctInv
    <2>2. \A i \in DOMAIN Queue' : Queue'[i].kind = plan'.kind
      BY DEF DistinctInv
    <2>3. \A i, j \in DOMAIN matches'[plan'.kind] :
             matches'[plan'.kind][i] = matches'[plan'.kind][j] => i = j
      BY <1>1 DEF DistinctInv
    <2>4. \A i, j \in DOMAIN Queue' :
             \A x \in DOMAIN Queue'[i].matches, y \in DOMAIN Queue'[j].matches :
               Queue'[i].matches[x] = Queue'[j].matches[y] => i = j /\ x = y
      BY DEF DistinctInv
    <2>5. \A e \in Matches : ~(Shown(e)' /\ Queued(e)')
      BY <1>2 DEF DistinctInv
    <2>6. QED
      BY <2>1, <2>2, <2>3, <2>4, <2>5 DEF DistinctInv
  <1>5. QED
    BY <1>3, <1>4

\* A search is as it was, but for one command.
LEMMA SearchKept ==
    ASSUME SearchInv, NEW r \in Requests, SearchInvOf(r)',
           \A q \in Requests \ {r} : /\ pc'[q] = pc[q] /\ background'[q] = background[q]
                                     /\ found'[q] = found[q] /\ held'[q] = held[q]
    PROVE  SearchInv'
  BY DEF SearchInv, SearchInvOf

\* A command sends its next message: the holder is passed on, or is what the
\* search has made of it.
LEMMA AskKeepsRows ==
    ASSUME IInv, TypeOK', RowInv, NEW r \in Requests, NEW from, NEW status, NEW m \in Messages,
           NEW to \in Steps, AskNext(r, from, status, m, to),
           UNCHANGED <<plan, held, background, found, requests, Elsewhere>>,
           to \in Early => from \in Early,
           to \in {"put", "show"} => background[r] = "found",
           GaveBack(r) => to \in {"put", "fail", "show", "failDrop", "done", "failed"},
           m.cmd = "Set" =>
              \/ m.holder.by = None
              \/ Located(m.holder)
              \/ m.holder = held[r] /\ ~GaveBack(r) /\ background[r] \in {"found", "error"}
                    /\ to \in {"put", "fail"}
    PROVE  RowInv'
  <1> USE DEF Elsewhere, loopVars, searchVars, viewVars
  <1>1. /\ TypeOK /\ requests \in Seq(Messages) /\ api \in Seq(Messages) /\ outbox \in Seq(Messages)
        /\ pc \in [Requests -> Steps] /\ reply \in [Requests -> Replies]
        /\ pc[r] = from /\ reply[r].status = status
        /\ pc' = [pc EXCEPT ![r] = to] /\ Ask(r, m)
    BY DEF AskNext, IInv, TypeOK
  <1>2. SearchInv'
    <2>1. SearchInvOf(r)'
      BY <1>1 DEF RowInv, SearchInv, SearchInvOf
    <2>2. QED
      BY <1>1, <2>1, SearchKept DEF RowInv
  <1>3. \A q \in Requests : GaveBack(q) => GaveBack(q)' /\ held'[q] = held[q]
    BY <1>1 DEF GaveBack
  <1>4. /\ \A q \in Requests : reply'[q].status = "ok" => q # r /\ reply'[q] = reply[q]
        /\ \A x : OnItsWay(x)' => OnItsWay(x) \/ x = m
    <2>1. reply'[r].status # "ok" /\ \A q \in Requests \ {r} : reply'[q] = reply[q]
      BY <1>1 DEF Ask, Lost, NoReply, Reply
    <2>2. \A x : Has(api', x) => Has(api, x) \/ x = m
      <3>1. \A x : Has(Append(api, m), x) => Has(api, x) \/ x = m
        BY <1>1, HasAppend
      <3>2. api' = api \/ api' = Append(api, m)
        BY <1>1 DEF Ask
      <3>3. QED
        BY <3>1, <3>2
    <2>3. QED
      BY <2>1, <2>2 DEF OnItsWay, Has
  <1>5. ASSUME NEW h \in Holders, Located(h)'
        PROVE  Located(h) \/ (m.cmd = "Set" /\ h = m.holder)
    BY <1>1, <1>4, <1>5 DEF Located
  <1>6. m.cmd = "Set" /\ ~Located(m.holder) /\ m.holder.by # None =>
           m.holder.by = r /\ held[r] = m.holder /\ ~GaveBack(r) /\ GaveBack(r)'
    BY <1>1 DEF RowInv, SearchInv, SearchInvOf, GaveBack
  <1>7. Queue' = Queue /\ matches' = matches
    BY DEF Queue
  <1>8. PositionInv' /\ DistinctInv'
    BY <1>1, <1>3, <1>5, <1>6, <1>7, RowsKept DEF RowInv
  <1>9. QED
    BY <1>2, <1>8 DEF RowInv

\* A command takes its last answer.
LEMMA EndsKeepsRows ==
    ASSUME IInv, TypeOK', RowInv, NEW r \in Requests, NEW from, NEW status, NEW to \in Steps,
           Ends(r, from, status, to),
           UNCHANGED <<plan, held, background, found, requests, Elsewhere>>,
           to \in Early => from \in Early,
           to \notin {"put", "show"},
           GaveBack(r) => to \in {"put", "fail", "show", "failDrop", "done", "failed"}
    PROVE  RowInv'
  <1> USE DEF Elsewhere, loopVars, searchVars, viewVars
  <1>1. /\ TypeOK /\ pc \in [Requests -> Steps] /\ reply \in [Requests -> Replies]
        /\ pc[r] = from /\ api' = api
        /\ pc' = [pc EXCEPT ![r] = to] /\ reply' = [reply EXCEPT ![r] = NoReply]
    BY DEF Ends, IInv, TypeOK
  <1>2. SearchInv'
    <2>1. SearchInvOf(r)'
      BY <1>1 DEF RowInv, SearchInv, SearchInvOf
    <2>2. QED
      BY <1>1, <2>1, SearchKept DEF RowInv
  <1>3. \A q \in Requests : GaveBack(q) => GaveBack(q)' /\ held'[q] = held[q]
    BY <1>1 DEF GaveBack
  <1>4. \A q \in Requests : reply'[q].status = "ok" => q # r /\ reply'[q] = reply[q]
    BY <1>1 DEF NoReply, Reply
  <1>5. \A x : OnItsWay(x)' <=> OnItsWay(x)
    BY <1>1 DEF OnItsWay, Has
  <1>6. ASSUME NEW h \in Holders, Located(h)' PROVE Located(h)
    BY <1>1, <1>4, <1>5, <1>6 DEF Located
  <1>7. Queue' = Queue /\ matches' = matches
    BY DEF Queue
  <1>8. PositionInv' /\ DistinctInv'
    BY <1>1, <1>3, <1>6, <1>7, RowsKept DEF RowInv
  <1>9. QED
    BY <1>2, <1>8 DEF RowInv
\* A cancelled command gives back nothing, whatever its search has found.
LEMMA CancelKeepsRows ==
    ASSUME IInv, TypeOK', RowInv, NEW r \in Requests, CancelSeen(r), plan' = plan
    PROVE  RowInv'
  <1> USE DEF searchVars, viewVars
  <1> DEFINE g == GivingNothing(r)
  <1>1. /\ TypeOK /\ requests \in Seq(Messages) /\ api \in Seq(Messages) /\ outbox \in Seq(Messages)
        /\ pc \in [Requests -> Steps] /\ reply \in [Requests -> Replies] /\ serving \in Messages
        /\ pc[r] \in {"search", "tick"} /\ pc' = [pc EXCEPT ![r] = "cancel"]
        /\ g \in Messages /\ g.holder = NewHolder /\ NewHolder.by = None
    BY MessageTypes DEF CancelSeen, IInv, TypeOK, GivingNothing, Message, NewHolder
  <1>2. SearchInv'
    <2>1. SearchInvOf(r)'
      BY <1>1 DEF CancelSeen, RowInv, SearchInv, SearchInvOf, Early
    <2>2. QED
      BY <1>1, <2>1, SearchKept DEF RowInv, CancelSeen
  <1>3. \A q \in Requests : GaveBack(q) => GaveBack(q)' /\ held'[q] = held[q]
    BY <1>1 DEF GaveBack, CancelSeen
  <1>4. \A q \in Requests : reply'[q].status = "ok" => q # r /\ reply'[q] = reply[q]
    BY <1>1 DEF CancelSeen, Lost, NoReply, Reply
  <1>5. ASSUME NEW q \in Seq(Messages), NEW x \in Messages, Has(Orphan(q, r), x)
        PROVE  \E y \in Messages : Has(q, y) /\ x.cmd = y.cmd /\ x.holder = y.holder
    <2>1. /\ Orphan(q, r) \in Seq(Messages) /\ Len(Orphan(q, r)) = Len(q)
          /\ \A i \in 1..Len(q) : Orphan(q, r)[i] = Orphaned(q[i], r)
      BY <1>5, OrphanType
    <2>2. /\ DOMAIN q = 1..Len(q) /\ DOMAIN Orphan(q, r) = 1..Len(q)
          /\ \A i \in 1..Len(q) : q[i] \in Messages
      BY <2>1, LenProperties
    <2>3. PICK i \in 1..Len(q) : Orphan(q, r)[i] = x
      BY <1>5, <2>2 DEF Has
    <2>4. q[i] \in Messages /\ Has(q, q[i]) /\ x = Orphaned(q[i], r)
      BY <2>1, <2>2, <2>3 DEF Has
    <2>5. \A y \in Messages : Orphaned(y, r).cmd = y.cmd /\ Orphaned(y, r).holder = y.holder
      BY DEF Orphaned, Messages
    <2>6. QED
      BY <2>4, <2>5
  <1>6. ASSUME NEW x \in Messages, OnItsWay(x)'
        PROVE  \/ x = g
               \/ \E y \in Messages : OnItsWay(y) /\ x.cmd = y.cmd /\ x.holder = y.holder
    <2>1. CASE Has(requests', x)
      BY <1>1, <1>5, <2>1 DEF CancelSeen, OnItsWay
    <2>2. CASE Has(outbox', x)
      BY <1>1, <1>5, <2>2 DEF CancelSeen, OnItsWay
    <2>3. CASE Has(api', x)
      <3> DEFINE o == Orphan(api, r)
      <3>1. o \in Seq(Messages)
        BY <1>1, OrphanType
      <3>2. api' = api \/ api' = Append(o, g)
        BY DEF CancelSeen
      <3> HIDE DEF o, g
      <3>3. Has(Append(o, g), x) => Has(o, x) \/ x = g
        BY <1>1, <3>1, HasAppend
      <3>4. CASE Has(api, x)
        BY <3>4 DEF OnItsWay
      <3>5. CASE Has(o, x)
        BY <1>1, <1>5, <3>5 DEF OnItsWay, o
      <3>6. QED
        BY <2>3, <3>2, <3>3, <3>4, <3>5
    <2>4. QED
      BY <1>6, <2>1, <2>2, <2>3 DEF OnItsWay, Has
  <1>7. serving'.cmd = serving.cmd /\ answer' = answer
    BY <1>1 DEF CancelSeen, Messages
  <1>8. ASSUME NEW h \in Holders, Located(h)' PROVE Located(h) \/ h.by = None
    <2>1. CASE \E m \in Messages : OnItsWay(m)' /\ m.cmd = "Set" /\ h = m.holder
      <3>1. PICK m \in Messages : OnItsWay(m)' /\ m.cmd = "Set" /\ h = m.holder
        BY <2>1
      <3>2. m = g \/ \E y \in Messages : OnItsWay(y) /\ m.cmd = y.cmd /\ m.holder = y.holder
        BY <1>6, <3>1
      <3>3. CASE m = g
        BY <1>1, <3>1, <3>3
      <3>4. CASE \E y \in Messages : OnItsWay(y) /\ m.cmd = y.cmd /\ m.holder = y.holder
        BY <3>1, <3>4 DEF Located
      <3>5. QED
        BY <3>2, <3>3, <3>4
    <2>2. CASE ~\E m \in Messages : OnItsWay(m)' /\ m.cmd = "Set" /\ h = m.holder
      <3>1. CASE slot'[plan.kind] # "InUse" /\ h = holder'[plan.kind]
        BY <3>1 DEF CancelSeen, Located
      <3>2. CASE serving'.cmd = "Get" /\ answer'.status = "ok" /\ h = answer'.holder
        BY <1>7, <3>2 DEF Located
      <3>3. CASE \E q \in Requests : pc'[q] = "get" /\ reply'[q].status = "ok" /\ h = reply'[q].holder
        BY <1>1, <1>4, <3>3 DEF Located
      <3>4. QED
        BY <1>8, <2>2, <3>1, <3>2, <3>3 DEF Located
    <2>3. QED
      BY <2>1, <2>2
  <1>9. Queue' = Queue /\ matches' = matches
    BY DEF Queue, CancelSeen
  <1>10. PositionInv' /\ DistinctInv'
    BY <1>1, <1>3, <1>8, <1>9, RowsKept DEF RowInv
  <1>11. QED
    BY <1>2, <1>10 DEF RowInv

LEMMA SpawnKeepsRows ==
    ASSUME IInv, TypeOK', RowInv, NEW r \in Requests, SearchSpawned(r), plan' = plan
    PROVE  RowInv'
  <1> USE DEF Elsewhere, loopVars, searchVars, viewVars
  <1>1. /\ TypeOK /\ pc \in [Requests -> Steps] /\ reply \in [Requests -> Replies]
        /\ held \in [Requests -> Holders]
        /\ background \in [Requests -> {"none", "running", "found", "error", "gone"}]
        /\ pc[r] = "get" /\ api' = api
        /\ pc' = [pc EXCEPT ![r] = "search"] /\ reply' = [reply EXCEPT ![r] = NoReply]
        /\ held' = [held EXCEPT ![r] = [reply[r].holder EXCEPT !.by = r]]
        /\ background' = [background EXCEPT ![r] = "running"]
        /\ found' = found
    BY DEF Ends, SearchSpawned, IInv, TypeOK
  <1>2. SearchInv'
    <2>1. held'[r].by = r
      <3>1. reply[r].holder \in Holders
        BY <1>1 DEF Replies
      <3>2. QED
        BY <1>1, <3>1 DEF Holders
    <2>2. SearchInvOf(r)'
      BY <1>1, <2>1 DEF RowInv, SearchInv, SearchInvOf, Early
    <2>3. QED
      BY <1>1, <2>2, SearchKept DEF RowInv
  <1>3. \A q \in Requests : GaveBack(q) => GaveBack(q)' /\ held'[q] = held[q]
    BY <1>1 DEF GaveBack
  <1>4. \A q \in Requests : reply'[q].status = "ok" => q # r /\ reply'[q] = reply[q]
    BY <1>1 DEF NoReply, Reply
  <1>5. \A x : OnItsWay(x)' <=> OnItsWay(x)
    BY <1>1 DEF OnItsWay, Has, SearchSpawned
  <1>6. ASSUME NEW h \in Holders, Located(h)' PROVE Located(h)
    BY <1>1, <1>4, <1>5, <1>6 DEF Located, SearchSpawned
  <1>7. Queue' = Queue /\ matches' = matches
    BY DEF Queue, SearchSpawned
  <1>8. PositionInv' /\ DistinctInv'
    BY <1>1, <1>3, <1>6, <1>7, RowsKept DEF RowInv
  <1>9. QED
    BY <1>2, <1>8 DEF RowInv

LEMMA TaskKeepsRows ==
    ASSUME IInv, IInv', RowInv, NEW r \in Requests, Task(r), plan' = plan
    PROVE  RowInv'
  <1> USE DEF Elsewhere
  <1>1. TypeOK /\ TypeOK' /\ KindOf(r) = plan.kind /\ plan.kind \in Kinds
    BY KindOfPlan DEF IInv
  <1>2. DropOf(r) \in Messages /\ DropOf(r).cmd = "Drop"
    BY <1>1, MessageTypes, MessageParts DEF DropOf
  <1>3. \A cmd \in {"Len", "Get", "Matches", "Clear", "Drop"} :
            Message(cmd, KindOf(r), r) \in Messages /\ Message(cmd, KindOf(r), r).cmd = cmd
    BY <1>1, MessageTypes, MessageParts
  <1>4. \A h \in Holders : Giving(r, h) \in Messages /\ Giving(r, h).holder = h
    BY <1>1, MessageTypes, MessageParts
  <1>5. /\ GivingNothing(r) \in Messages /\ GivingNothing(r).holder = NewHolder
        /\ NewHolder.by = None
    BY <1>1, MessageTypes DEF GivingNothing, Message, NewHolder
  <1>6. CASE Starts(r)
    <2>1. PICK to \in {"clearing", "dropping"} : AskNext(r, "new", "none", DropOf(r), to)
      BY <1>6 DEF Starts
    <2>2. to \in Steps /\ "new" \in Early /\ pc[r] = "new"
      BY <2>1 DEF Steps, Early, AskNext
    <2>3. UNCHANGED <<plan, held, background, found, requests, Elsewhere>>
      BY <1>6 DEF Starts
    <2>4. ~GaveBack(r)
      BY <2>2 DEF GaveBack
    <2>5. QED
      BY <1>1, <1>2, <2>1, <2>2, <2>3, <2>4, AskKeepsRows
  <1>7. CASE Dropped(r)
    <2>1. "len" \in Steps /\ "dropping" \in Early /\ ~GaveBack(r)
      BY <1>7 DEF Steps, Early, GaveBack, Dropped, AskNext
    <2>2. QED
      BY <1>1, <1>3, <1>7, <2>1, AskKeepsRows DEF Dropped
  <1>8. CASE NotDropped(r)
    <2>1. PICK to \in {"failed", "retry"} : Ends(r, "dropping", "refused", to)
      BY <1>8 DEF NotDropped
    <2>2. to \in Steps /\ "dropping" \in Early /\ ~GaveBack(r)
      BY <2>1 DEF Steps, Early, GaveBack, Ends
    <2>3. UNCHANGED <<plan, held, background, found, requests, Elsewhere>>
      BY <1>8 DEF NotDropped
    <2>4. QED
      BY <1>1, <2>1, <2>2, <2>3, EndsKeepsRows
  <1>9. CASE DropsAgain(r)
    <2>1. "dropping" \in Steps /\ "retry" \in Early /\ ~GaveBack(r)
      BY <1>9 DEF Steps, Early, GaveBack, DropsAgain, AskNext
    <2>2. QED
      BY <1>1, <1>2, <1>9, <2>1, AskKeepsRows DEF DropsAgain
  <1>10. CASE LenKnown(r)
    <2>1. "get" \in Steps /\ "len" \in Early /\ ~GaveBack(r)
      BY <1>10 DEF Steps, Early, GaveBack, LenKnown, AskNext
    <2>2. QED
      BY <1>1, <1>3, <1>10, <2>1, AskKeepsRows DEF LenKnown
  <1>11. CASE SearchSpawned(r)
    BY <1>1, <1>11, SpawnKeepsRows
  <1>12. CASE PutsBack(r)
    <2>1. pc[r] = "get" /\ reply[r].status = "ok" /\ reply[r].holder \in Holders
      BY <1>1, <1>12 DEF PutsBack, AskNext, TypeOK, Replies
    <2>2. PICK h : /\ h \in Holders /\ AskNext(r, "get", "ok", Giving(r, h), "putBack")
                   /\ h.by = None \/ h = reply[r].holder
      <3>1. /\ [reply[r].holder EXCEPT !.by = None] \in Holders
            /\ [reply[r].holder EXCEPT !.by = None].by = None
        BY <2>1 DEF Holders
      <3>2. QED
        BY <1>12, <2>1, <3>1 DEF PutsBack
    <2>3. "putBack" \in Steps /\ "putBack" \notin Early /\ ~GaveBack(r)
      BY <2>1 DEF Steps, Early, GaveBack
    <2>4. UNCHANGED <<plan, held, background, found, requests, Elsewhere>>
      BY <1>12 DEF PutsBack
    <2>5. Located(reply[r].holder)
      BY <2>1 DEF Located
    <2>6. QED
      BY <1>1, <1>4, <2>2, <2>3, <2>4, <2>5, AskKeepsRows
  <1>13. CASE ResultTaken(r)
    <2>1. /\ held[r] \in Holders /\ pc[r] = "search" /\ ~GaveBack(r)
          /\ {"put", "fail"} \subseteq Steps /\ {"put", "fail"} \cap Early = {}
      BY <1>1, <1>13 DEF TypeOK, ResultTaken, AskNext, GaveBack, Steps, Early
    <2>2. UNCHANGED <<plan, held, background, found, requests, Elsewhere>>
      BY <1>13 DEF ResultTaken
    <2>3. CASE background[r] = "found" /\ AskNext(r, "search", "none", Giving(r, held[r]), "put")
      BY <1>1, <1>4, <2>1, <2>2, <2>3, AskKeepsRows
    <2>4. CASE background[r] = "error" /\ AskNext(r, "search", "none", Giving(r, held[r]), "fail")
      BY <1>1, <1>4, <2>1, <2>2, <2>4, AskKeepsRows
    <2>5. CASE background[r] = "gone" /\ AskNext(r, "search", "none", GivingNothing(r), "fail")
      BY <1>1, <1>5, <2>1, <2>2, <2>5, AskKeepsRows
    <2>6. QED
      BY <1>13, <2>3, <2>4, <2>5 DEF ResultTaken
  <1>14. CASE Ticks(r)
    <2> DEFINE cmd == IF plan.kind = "regular" THEN "Clear" ELSE "Drop"
    <2>1. "tick" \in Steps /\ "tick" \notin Early /\ ~GaveBack(r)
      BY <1>14 DEF Steps, Early, GaveBack, Ticks
    <2>2. AskNext(r, "search", "none", Message(cmd, KindOf(r), r), "tick")
      BY <1>1, <1>14 DEF Ticks
    <2>3. UNCHANGED <<plan, held, background, found, requests, Elsewhere>>
      BY <1>14 DEF Ticks
    <2>4. cmd \in {"Clear", "Drop"}
      OBVIOUS
    <2> HIDE DEF cmd
    <2>5. QED
      BY <1>1, <1>3, <2>1, <2>2, <2>3, <2>4, AskKeepsRows
  <1>15. CASE TickAnswered(r)
    <2>1. "search" \in Steps /\ "search" \notin Early /\ ~GaveBack(r)
      BY <1>15 DEF Steps, Early, GaveBack, TickAnswered, Ends
    <2>2. QED
      BY <1>1, <1>15, <2>1, EndsKeepsRows DEF TickAnswered
  <1>16. CASE CancelSeen(r)
    BY <1>1, <1>16, CancelKeepsRows
  <1>17. CASE HolderReturned(r)
    <2>1. /\ UNCHANGED <<plan, held, background, found, requests, Elsewhere>>
          /\ {"show", "failDrop", "cancelDrop"} \subseteq Steps
          /\ {"show", "failDrop", "cancelDrop"} \cap Early = {}
      BY <1>17 DEF HolderReturned, Steps, Early
    <2>2. CASE AskNext(r, "put", "ok", Message("Matches", KindOf(r), r), "show")
      <3>1. background[r] = "found"
        BY <2>2 DEF AskNext, RowInv, SearchInv, SearchInvOf
      <3>2. QED
        BY <1>1, <1>3, <2>1, <2>2, <3>1, AskKeepsRows
    <2>3. CASE AskNext(r, "fail", "ok", DropOf(r), "failDrop")
      BY <1>1, <1>2, <2>1, <2>3, AskKeepsRows
    <2>4. CASE AskNext(r, "cancel", "ok", DropOf(r), "cancelDrop")
      <3>1. ~GaveBack(r)
        BY <2>4 DEF AskNext, GaveBack
      <3>2. QED
        BY <1>1, <1>2, <2>1, <2>4, <3>1, AskKeepsRows
    <2>5. QED
      BY <1>17, <2>2, <2>3, <2>4 DEF HolderReturned
  <1>18. CASE TaskEnds(r)
    <2>1. PICK from \in Steps, status \in {"ok", "refused", "lost"}, to \in {"done", "failed"} :
             Ends(r, from, status, to)
      <3>1. pc[r] \in Steps
        BY <1>1 DEF TypeOK
      <3>2. QED
        BY <1>18, <3>1 DEF TaskEnds, Steps
    <2>2. to \in Steps /\ to \notin Early
      BY <2>1 DEF Steps, Early
    <2>3. UNCHANGED <<plan, held, background, found, requests, Elsewhere>>
      BY <1>18 DEF TaskEnds
    <2>4. QED
      BY <1>1, <2>1, <2>2, <2>3, EndsKeepsRows
  <1>19. QED
    BY <1>6, <1>7, <1>8, <1>9, <1>10, <1>11, <1>12, <1>13, <1>14, <1>15, <1>16, <1>17, <1>18
       DEF Task
\* The background search of r ends: r still has its holder.
LEMMA BackgroundKeepsRows ==
    ASSUME IInv, IInv', RowInv, NEW r \in Requests, BackgroundEnds(r), plan' = plan
    PROVE  RowInv'
  <1> USE DEF Elsewhere, loopVars, searchVars, viewVars
  <1> DEFINE h == held[r]
             n == target[r]
  <1>1. /\ TypeOK /\ TypeOK' /\ held \in [Requests -> Holders]
        /\ background \in [Requests -> {"none", "running", "found", "error", "gone"}]
        /\ found \in [Requests -> Seq(Matches)]
        /\ background[r] = "running" /\ h \in Holders /\ n \in Nat /\ h.upTo \in Nat
        /\ ~GaveBack(r) /\ pc' = pc
    BY DEF BackgroundEnds, IInv, TypeOK, Holders, GaveBack
  <1>2. h.by = r /\ pc[r] \notin Early
    BY <1>1 DEF RowInv, SearchInv, SearchInvOf
  <1>3. \A q \in Requests \ {r} : /\ background'[q] = background[q] /\ found'[q] = found[q]
                                  /\ held'[q] = held[q]
    BY <1>1 DEF BackgroundEnds
  <1>4. \/ background'[r] \in {"gone", "found", "error"} /\ held'[r] = h /\ found'[r] = found[r]
        \/ /\ background'[r] = "found" /\ held'[r] = Advanced(h, n)
           /\ found'[r] = FoundBy(h, n) /\ ~Idles(h, n)
    BY <1>1 DEF BackgroundEnds
  <1>5. SearchInvOf(r)'
    <2>1. CASE background'[r] \in {"gone", "found", "error"} /\ held'[r] = h /\ found'[r] = found[r]
      <3>1. pc[r] \notin {"put", "show"}
        BY <1>1 DEF RowInv, SearchInv, SearchInvOf
      <3>2. QED
        BY <1>1, <1>2, <2>1, <3>1 DEF RowInv, SearchInv, SearchInvOf
    <2>2. CASE /\ background'[r] = "found" /\ held'[r] = Advanced(h, n)
               /\ found'[r] = FoundBy(h, n) /\ ~Idles(h, n)
      <3>1. Advanced(h, n).by = r /\ Advanced(h, n).upTo = n /\ n > h.upTo
        BY <1>1, <1>2, <2>2 DEF Advanced, Idles, Holders
      <3>2. /\ DOMAIN FoundBy(h, n) = 1..(n - h.upTo) /\ n - h.upTo \in Nat
            /\ \A i \in 1..(n - h.upTo) : /\ FoundBy(h, n)[i].by = r
                                          /\ FoundBy(h, n)[i].row = h.upTo + i
        BY <1>1, <1>2, <3>1 DEF FoundBy
      <3> DEFINE f == FoundBy(h, n)
      <3>3. /\ \A i \in DOMAIN f : f[i].by = r /\ f[i].row <= n
            /\ \A i, j \in DOMAIN f : f[i] = f[j] => i = j
        <4> HIDE DEF f, h, n
        <4>1. /\ DOMAIN f = 1..(n - h.upTo) /\ n - h.upTo \in Nat /\ h.upTo \in Nat /\ n \in Nat
              /\ \A i \in 1..(n - h.upTo) : f[i].by = r /\ f[i].row = h.upTo + i
          BY <1>1, <3>2 DEF f
        <4>2. \A i \in 1..(n - h.upTo) : h.upTo + i <= n
          BY <4>1
        <4>3. ASSUME NEW i \in DOMAIN f, NEW j \in DOMAIN f, f[i] = f[j] PROVE i = j
          <5>1. h.upTo + i = h.upTo + j
            BY <4>1, <4>3
          <5>2. QED
            BY <4>1, <5>1
        <4>4. QED
          BY <4>1, <4>2, <4>3
      <3>4. QED
        BY <1>1, <1>2, <2>2, <3>1, <3>3 DEF SearchInvOf
    <2>3. QED
      BY <1>4, <2>1, <2>2
  <1>6. SearchInv'
    BY <1>1, <1>3, <1>5, SearchKept DEF RowInv
  <1>7. \A q \in Requests : GaveBack(q) => GaveBack(q)' /\ held'[q] = held[q]
    BY <1>1, <1>3 DEF GaveBack
  <1>8. \A x \in Holders : Located(x)' => Located(x)
    BY DEF BackgroundEnds, Located, OnItsWay, Has
  <1>9. Queue' = Queue /\ matches' = matches
    BY DEF Queue, BackgroundEnds
  <1>10. PositionInv' /\ DistinctInv'
    BY <1>1, <1>7, <1>8, <1>9, RowsKept DEF RowInv
  <1>11. QED
    BY <1>6, <1>10 DEF RowInv

\* Steps of the state loop and the searchers do not search.
LEMMA SearchUntouched ==
    ASSUME RowInv, UNCHANGED taskVars
    PROVE  /\ SearchInv'
           /\ \A r \in Requests : (GaveBack(r)' <=> GaveBack(r)) /\ held'[r] = held[r]
  BY DEF RowInv, SearchInv, SearchInvOf, GaveBack, taskVars

\* Steps that only pass messages on.
LEMMA PassingKeepsRows ==
    ASSUME IInv, IInv', RowInv, UNCHANGED <<plan, taskVars>>,
           \A k \in Kinds : matches'[k] = matches[k] \/ matches'[k] = <<>>,
           Queue' = Queue,
           \A h \in Holders : Located(h)' => Located(h) \/ h.by = None
    PROVE  RowInv'
  <1>1. PositionInv' /\ DistinctInv'
    BY SearchUntouched, RowsKept DEF RowInv, IInv
  <1>2. QED
    BY <1>1, SearchUntouched DEF RowInv

LEMMA ProducesKeepsRows ==
    ASSUME IInv, IInv', RowInv, Produces, plan' = plan
    PROVE  RowInv'
  <1> USE DEF loopVars, searchVars, viewVars, chanVars
  <1>1. api \in Seq(Messages) /\ Write \in Messages /\ Write.cmd = "Write"
    BY MessageTypes DEF IInv, TypeOK, Write, Message
  <1>2. \A x : Has(api', x) => Has(api, x) \/ x = Write
    BY <1>1, HasAppend DEF Produces
  <1>3. \A x : OnItsWay(x)' => OnItsWay(x) \/ x = Write
    BY <1>2 DEF Produces, OnItsWay, Has
  <1>4. ASSUME NEW h \in Holders, Located(h)' PROVE Located(h)
    BY <1>1, <1>3, <1>4 DEF Located, Produces, taskVars
  <1>5. Queue' = Queue /\ matches' = matches
    BY DEF Queue, Produces
  <1>6. QED
    BY <1>4, <1>5, PassingKeepsRows DEF Produces
\* The state loop passes messages on, ...
LEMMA StatePassesRows ==
    ASSUME IInv, IInv', RowInv, plan' = plan,
           TakesWrite \/ TakesForward \/ TakesLen \/ TakesClear \/ ClearUnheard \/ SendsRequest
    PROVE  RowInv'
  <1> USE DEF searchVars, viewVars, chanVars, loopVars
  <1>1. /\ TypeOK /\ requests \in Seq(Messages) /\ api \in Seq(Messages) /\ outbox \in Seq(Messages)
        /\ reply \in [Requests -> Replies] /\ matches \in [Kinds -> Seq(Matches)]
        /\ NewHolder.by = None
    BY DEF IInv, TypeOK, NewHolder
  <1>2. ASSUME NEW cmd, Takes(cmd)
        PROVE  /\ \A x : Has(api', x) => Has(api, x)
               /\ Has(api, Head(api)) /\ answer.status # "ok"
               /\ Head(api) \in Messages
    BY <1>1, <1>2, HasParts DEF Takes, IInv, ServiceInv, NoReply, Reply
  <1>3. CASE TakesWrite
    <2>1. \A x : OnItsWay(x)' => OnItsWay(x) \/ x.cmd = "Search"
      <3>1. \A x : Has(outbox', x) => x.cmd = "Search"
        BY <1>3 DEF TakesWrite, Has, Update, Message
      <3>2. QED
        BY <1>2, <1>3, <3>1 DEF TakesWrite, OnItsWay, Has
    <2>2. ASSUME NEW h \in Holders, Located(h)' PROVE Located(h)
      <3>1. answer' = answer /\ answer.status # "ok"
        BY <1>2, <1>3 DEF TakesWrite
      <3>2. QED
        BY <1>3, <2>1, <2>2, <3>1 DEF Located, TakesWrite, taskVars
    <2>3. QED
      BY <1>3, <2>2, PassingKeepsRows DEF TakesWrite, Queue
  <1>4. CASE TakesForward
    <2>1. \A x : OnItsWay(x)' => OnItsWay(x)
      <3>1. \A x : Has(outbox', x) => x = Head(api)
        BY <1>4 DEF TakesForward, Has
      <3>2. QED
        BY <1>2, <1>4, <3>1 DEF TakesForward, OnItsWay, Has
    <2>2. ASSUME NEW h \in Holders, Located(h)' PROVE Located(h)
      <3>1. answer' = answer /\ answer.status # "ok"
        BY <1>2, <1>4 DEF TakesForward
      <3>2. QED
        BY <1>4, <2>1, <2>2, <3>1 DEF Located, TakesForward, taskVars
    <2>3. QED
      BY <1>4, <2>2, PassingKeepsRows DEF TakesForward, Queue, fileVars
  <1>5. CASE TakesLen \/ TakesClear \/ ClearUnheard
    <2>1. \A x : Has(api', x) => Has(api, x)
      <3>1. \A x : ~Has(<<>>, x)
        BY DEF Has
      <3>2. QED
        BY <1>2, <1>5, <3>1 DEF TakesLen, TakesClear, ClearUnheard
    <2>2. \A x : OnItsWay(x)' => OnItsWay(x)
      BY <1>5, <2>1 DEF TakesLen, TakesClear, ClearUnheard, OnItsWay, Has
    <2>3. \A q \in Requests : reply'[q].status = "ok" =>
             reply'[q] = reply[q] \/ reply'[q].holder = NewHolder
      <3>1. CASE TakesLen
        BY <1>1, <3>1 DEF TakesLen, Reply
      <3>2. CASE TakesClear
        BY <1>1, <3>2 DEF TakesClear, Yes, Reply
      <3>3. CASE ClearUnheard
        BY <1>1, <3>3 DEF ClearUnheard, Lost, Reply
      <3>4. QED
        BY <1>5, <3>1, <3>2, <3>3
    <2>4. ASSUME NEW h \in Holders, Located(h)' PROVE Located(h) \/ h.by = None
      BY <1>1, <1>5, <2>2, <2>3, <2>4
         DEF Located, TakesLen, TakesClear, ClearUnheard, taskVars
    <2>5. \A k \in Kinds : matches'[k] = matches[k] \/ matches'[k] = <<>>
      BY <1>1, <1>5 DEF TakesLen, TakesClear, ClearUnheard
    <2>6. QED
      BY <1>5, <2>4, <2>5, PassingKeepsRows DEF TakesLen, TakesClear, ClearUnheard, Queue
  <1>6. CASE SendsRequest
    <2>1. \A x : OnItsWay(x)' => OnItsWay(x)
      <3>1. outbox # <<>> /\ Head(outbox) \in Messages /\ Has(outbox, Head(outbox))
        BY <1>1, <1>6, HasParts DEF SendsRequest
      <3>2. \A x : Has(Append(requests, Head(outbox)), x) => Has(requests, x) \/ x = Head(outbox)
        BY <1>1, <3>1, HasAppend
      <3>3. \A x : Has(Tail(outbox), x) => Has(outbox, x)
        BY <1>1, <3>1, HasParts
      <3>4. requests' = Append(requests, Head(outbox)) /\ outbox' = Tail(outbox) /\ api' = api
        BY <1>6 DEF SendsRequest
      <3>5. ASSUME NEW x, OnItsWay(x)' PROVE OnItsWay(x)
        <4>1. \/ Has(Append(requests, Head(outbox)), x) \/ Has(Tail(outbox), x) \/ Has(api, x)
          BY <3>4, <3>5 DEF OnItsWay, Has
        <4>2. QED
          BY <3>1, <3>2, <3>3, <4>1 DEF OnItsWay
      <3>6. QED
        BY <3>5
    <2>2. ASSUME NEW h \in Holders, Located(h)' PROVE Located(h)
      BY <1>6, <2>1, <2>2 DEF Located, SendsRequest, taskVars
    <2>3. QED
      BY <1>6, <2>2, PassingKeepsRows DEF SendsRequest, Queue
  <1>7. QED
    BY <1>3, <1>4, <1>5, <1>6

\* ... and answers them: the holder, when it was asked for.
LEMMA AnswersPassRows ==
    ASSUME IInv, IInv', RowInv, plan' = plan,
           WriteServed \/ SetForwarded \/ ValuesDropped \/ DropServed \/ GetServed
    PROVE  RowInv'
  <1> USE DEF searchVars, viewVars, chanVars
  <1>1. /\ TypeOK /\ reply \in [Requests -> Replies] /\ serving \in Messages
        /\ matches \in [Kinds -> Seq(Matches)] /\ answer \in Replies
        /\ serving'.cmd # "Get"
    BY DEF IInv, TypeOK, WriteServed, SetForwarded, ValuesDropped, DropServed, GetServed,
           Returns, Nothing, Message
  <1>2. \A x : OnItsWay(x)' => OnItsWay(x)
    BY DEF WriteServed, SetForwarded, ValuesDropped, DropServed, GetServed, OnItsWay, Has
  <1>3. \A k \in Kinds : matches'[k] = matches[k] \/ matches'[k] = <<>>
    BY <1>1 DEF WriteServed, SetForwarded, ValuesDropped, DropServed, GetServed
  <1>4. ASSUME NEW q \in Requests, pc'[q] = "get", reply'[q].status = "ok"
        PROVE  \/ reply'[q] = reply[q]
               \/ serving.cmd = "Get" /\ reply'[q] = answer
    <2>1. CASE WriteServed \/ SetForwarded \/ ValuesDropped
      BY <2>1 DEF WriteServed, SetForwarded, ValuesDropped
    <2>2. CASE DropServed
      <3>1. Sound(serving) /\ serving.cmd = "Drop" /\ serving.from # None
        BY <2>2 DEF DropServed, Sent, IInv, ServiceInv, IsAnswered, Sound
      <3>2. pc[serving.from] # "get"
        BY <3>1 DEF Sound, Awaits
      <3>3. q # serving.from
        BY <1>4, <2>2, <3>2 DEF DropServed, taskVars
      <3>4. QED
        BY <1>1, <2>2, <3>3 DEF DropServed
    <2>3. CASE GetServed
      BY <1>1, <2>3 DEF GetServed, Sent
    <2>4. QED
      BY <2>1, <2>2, <2>3
  <1>5. ASSUME NEW h \in Holders, Located(h)' PROVE Located(h)
    <2>1. CASE \E q \in Requests : pc'[q] = "get" /\ reply'[q].status = "ok" /\ h = reply'[q].holder
      <3>1. PICK q \in Requests : pc'[q] = "get" /\ reply'[q].status = "ok" /\ h = reply'[q].holder
        BY <2>1
      <3>2. pc' = pc
        BY DEF WriteServed, SetForwarded, ValuesDropped, DropServed, GetServed, taskVars
      <3>3. QED
        BY <1>4, <3>1, <3>2 DEF Located
    <2>2. CASE ~\E q \in Requests : pc'[q] = "get" /\ reply'[q].status = "ok" /\ h = reply'[q].holder
      <3>1. slot' = slot /\ holder' = holder
        BY DEF WriteServed, SetForwarded, ValuesDropped, DropServed, GetServed
      <3>2. QED
        BY <1>1, <1>2, <1>5, <2>2, <3>1 DEF Located
    <2>3. QED
      BY <2>1, <2>2
  <1>6. UNCHANGED taskVars /\ Queue' = Queue
    BY DEF WriteServed, SetForwarded, ValuesDropped, DropServed, GetServed, Queue
  <1>7. QED
    BY <1>3, <1>5, <1>6, PassingKeepsRows

\* The results of a full search replace what is shown: its holder has passed
\* them when it came back, and what was found since is further on.
LEMMA MatchesKeepRows ==
    ASSUME IInv, IInv', RowInv, TakesMatches, plan' = plan
    PROVE  RowInv'
  <1> USE DEF searchVars, viewVars, chanVars, loopVars
  <1> DEFINE m == Head(api)
             k == plan.kind
  <1>1. /\ TypeOK /\ api \in Seq(Messages) /\ api # <<>> /\ m \in Messages
        /\ reply \in [Requests -> Replies] /\ matches \in [Kinds -> Seq(Matches)]
        /\ k \in Kinds /\ m.cmd = "Matches" /\ NewHolder.by = None
    BY HeadMessage, KindOfPlan DEF TakesMatches, Takes, IInv, TypeOK, NewHolder
  <1>2. PICK r \in Requests : /\ r = m.from /\ m.kind = k /\ pc[r] = "show"
                              /\ background[r] = "found"
    <2>1. m.from # None /\ Sound(m)
      BY <1>1, HeadOfLine DEF IInv, Sound
    <2>2. m.from \in Requests /\ m.kind = k /\ pc[m.from] = "show"
      BY <1>1, <2>1 DEF Sound, Awaits, Messages
    <2>3. QED
      BY <2>2 DEF RowInv, SearchInv, SearchInvOf
  <1>3. /\ matches'[k] = found[r] /\ \A l \in Kinds : l # k => matches'[l] = matches[l]
        /\ Queue' = Queue /\ UNCHANGED taskVars
    BY <1>1, <1>2 DEF TakesMatches, Queue
  <1>4. GaveBack(r) /\ held[r] \in Holders
    BY <1>2 DEF GaveBack, IInv, TypeOK
  <1>5. /\ \A e \in Matches : Shown(e)' => e.by = r /\ e.row <= held[r].upTo
        /\ \A i, j \in DOMAIN matches'[k] : matches'[k][i] = matches'[k][j] => i = j
    BY <1>3 DEF Shown, Has, RowInv, SearchInv, SearchInvOf
  <1>6. \A e \in Matches : Queued(e)' <=> Queued(e)
    BY <1>3 DEF Queued, Has
  <1>7. ASSUME NEW h \in Holders, Located(h)' PROVE Located(h) \/ h.by = None
    <2>1. \A x : Has(api', x) => Has(api, x)
      BY <1>1, HasParts DEF TakesMatches, Takes
    <2>2. \A x : OnItsWay(x)' => OnItsWay(x)
      BY <2>1 DEF TakesMatches, OnItsWay, Has
    <2>3. \A q \in Requests : reply'[q].status = "ok" =>
             reply'[q] = reply[q] \/ reply'[q].holder = NewHolder
      BY <1>1 DEF TakesMatches, Yes, Reply
    <2>4. QED
      BY <1>1, <1>7, <2>2, <2>3 DEF Located, TakesMatches, taskVars
  <1>8. PositionInv'
    <2>1. \A q \in Requests : (GaveBack(q)' <=> GaveBack(q)) /\ held'[q] = held[q]
      BY <1>3, SearchUntouched
    <2>2. /\ \A e \in Matches : e.by \in Requests /\ e.row \in Nat
          /\ \A h \in Holders : h.by \in Requests \cup {None} /\ h.upTo \in Nat
          /\ \A q \in Requests : q # None
      BY ConstantsAssumption DEF Matches, Holders
    <2>3. \A h \in Holders : Located(h)' /\ h.by # None =>
             GaveBack(h.by)' /\ held'[h.by].upTo <= h.upTo
      BY <1>7, <2>1, <2>2 DEF RowInv, PositionInv
    <2>4. \A e \in Matches : Shown(e)' \/ Queued(e)' => GaveBack(e.by)'
      BY <1>4, <1>5, <1>6, <2>1, <2>2 DEF RowInv, PositionInv
    <2>5. ASSUME NEW e \in Matches, NEW h \in Holders,
                 Shown(e)' \/ Queued(e)', Located(h)', e.by = h.by
          PROVE  e.row <= h.upTo
      <3>1. Located(h) /\ h.by # None
        BY <1>7, <2>2, <2>5
      <3>2. CASE Queued(e)
        BY <2>5, <3>1, <3>2 DEF RowInv, PositionInv
      <3>3. CASE Shown(e)'
        <4>1. held[r].upTo <= h.upTo /\ e.row <= held[r].upTo
          BY <1>5, <2>5, <3>1, <3>3 DEF RowInv, PositionInv
        <4>2. held[r].upTo \in Nat /\ h.upTo \in Nat /\ e.row \in Nat
          BY <1>4, <2>2
        <4>3. QED
          BY <4>1, <4>2
      <3>4. QED
        BY <1>6, <2>5, <3>2, <3>3
    <2>6. \A e \in Matches : Queued(e)' => held'[e.by].upTo < e.row
      BY <1>6, <2>1, <2>2 DEF RowInv, PositionInv
    <2>7. QED
      BY <2>3, <2>4, <2>5, <2>6 DEF PositionInv
  <1>9. DistinctInv'
    <2>1. ASSUME NEW e \in Matches, Shown(e)', Queued(e)' PROVE FALSE
      <3>1. e.by = r /\ e.row <= held[r].upTo /\ held[e.by].upTo < e.row
        BY <1>5, <1>6, <2>1 DEF RowInv, PositionInv
      <3>2. e.row \in Nat /\ held[r].upTo \in Nat
        BY <1>4 DEF Matches, Holders
      <3>3. QED
        BY <3>1, <3>2
    <2>2. \A l \in Kinds : l # plan'.kind => matches'[l] = <<>>
      BY <1>3 DEF RowInv, DistinctInv
    <2>3. /\ \A i \in DOMAIN Queue' : Queue'[i].kind = plan'.kind
          /\ \A i, j \in DOMAIN Queue' :
               \A x \in DOMAIN Queue'[i].matches, y \in DOMAIN Queue'[j].matches :
                 Queue'[i].matches[x] = Queue'[j].matches[y] => i = j /\ x = y
      BY <1>3 DEF RowInv, DistinctInv
    <2>4. QED
      BY <1>5, <2>1, <2>2, <2>3 DEF DistinctInv
  <1>10. QED
    BY <1>3, <1>8, <1>9, SearchUntouched DEF RowInv
\* Two sequences without repetitions and without a common element.
LEMMA ConcatDistinct ==
    ASSUME NEW S, NEW a \in Seq(S), NEW b \in Seq(S),
           \A u, v \in DOMAIN a : a[u] = a[v] => u = v,
           \A u, v \in DOMAIN b : b[u] = b[v] => u = v,
           \A u \in DOMAIN a, v \in DOMAIN b : a[u] # b[v],
           NEW i \in DOMAIN (a \o b), NEW j \in DOMAIN (a \o b),
           (a \o b)[i] = (a \o b)[j]
    PROVE  i = j
  <1> DEFINE c == a \o b
  <1>1. /\ DOMAIN a = 1..Len(a) /\ Len(a) \in Nat /\ DOMAIN b = 1..Len(b) /\ Len(b) \in Nat
    BY LenProperties
  <1>2. /\ c \in Seq(S) /\ Len(c) = Len(a) + Len(b)
        /\ \A n \in 1..Len(a) + Len(b) :
             c[n] = IF n <= Len(a) THEN a[n] ELSE b[n - Len(a)]
    BY ConcatProperties
  <1>3. i \in 1..Len(a) + Len(b) /\ j \in 1..Len(a) + Len(b) /\ c[i] = c[j]
    BY <1>2, LenProperties
  <1> HIDE DEF c
  <1>4. \A n \in 1..Len(a) + Len(b) :
            \/ n <= Len(a) /\ n \in DOMAIN a /\ c[n] = a[n]
            \/ n > Len(a) /\ n - Len(a) \in DOMAIN b /\ c[n] = b[n - Len(a)]
    BY <1>1, <1>2
  <1>5. CASE i <= Len(a) /\ j <= Len(a)
    BY <1>1, <1>3, <1>4, <1>5
  <1>6. CASE i > Len(a) /\ j > Len(a)
    <2>1. i - Len(a) = j - Len(a)
      BY <1>1, <1>3, <1>4, <1>6
    <2>2. QED
      BY <1>1, <1>3, <2>1
  <1>7. QED
    BY <1>1, <1>3, <1>4, <1>5, <1>6
\* The oldest extension is shown: it leaves the queue.
LEMMA ResponseKeepsRows ==
    ASSUME IInv, IInv', RowInv, TakesResponse, plan' = plan
    PROVE  RowInv'
  <1> USE DEF searchVars, viewVars, loopVars
  <1> DEFINE k == plan.kind
             R == [kind : Kinds, matches : Seq(Matches)]
             hd == Head(responses)
  <1>1. /\ responses \in Seq(R) /\ pending \in Seq(R) /\ responses # <<>>
        /\ matches \in [Kinds -> Seq(Matches)] /\ k \in Kinds
        /\ responses' = Tail(responses) /\ pending' = pending
    BY KindOfPlan DEF TakesResponse, IInv, TypeOK
  <1>2. /\ Queue' \in Seq(R) /\ Queue \in Seq(R)
        /\ Len(Queue) = Len(Queue') + 1 /\ Len(Queue') \in Nat /\ Queue[1] = hd
        /\ \A i \in 1..Len(Queue') : Queue'[i] = Queue[i + 1]
    <2> DEFINE e == <<>>
    <2>1. e \in Seq(R) /\ \A q \in Seq(R) : q \o e = q
      BY ConcatEmptySeq
    <2>2. /\ responses \o pending \o e = Queue /\ Tail(responses) \o pending \o e = Queue'
      <3>1. responses \o pending \in Seq(R) /\ Tail(responses) \o pending \in Seq(R)
        BY <1>1, HeadTailProperties, ConcatProperties
      <3>2. QED
        BY <1>1, <2>1, <3>1 DEF Queue
    <2> HIDE DEF e, R
    <2> DEFINE l == responses \o pending \o e
               m == Tail(responses) \o pending \o e
    <2>3. /\ m \in Seq(R) /\ Len(l) = Len(m) + 1 /\ Len(m) \in Nat
          /\ l[1] = Head(responses)
          /\ \A i \in 1..Len(m) : m[i] = l[i + 1]
      <3>1. /\ responses \in Seq(R) /\ pending \in Seq(R) /\ e \in Seq(R)
            /\ responses # <<>>
        BY <1>1, <2>1
      <3>2. IsTail(m, l, R) /\ l[1] = Head(responses)
        BY <3>1, JoinedTail
      <3> HIDE DEF l, m
      <3>3. QED
        BY <3>2 DEF IsTail
    <2>4. l = Queue /\ m = Queue'
      BY <2>2
    <2>5. Queue \in Seq(R)
      BY <1>1, ConcatProperties DEF Queue
    <2> HIDE DEF l, m
    <2>6. QED
      BY <2>3, <2>4, <2>5
  <1>3. DOMAIN Queue = 1..Len(Queue) /\ DOMAIN Queue' = 1..Len(Queue') /\ 1 \in DOMAIN Queue
    BY <1>2, LenProperties
  <1>4. /\ hd.kind = k /\ hd.matches \in Seq(Matches)
        /\ matches'[k] = matches[k] \o hd.matches
        /\ \A l \in Kinds : l # k => matches'[l] = matches[l]
    <2>1. hd \in R
      BY <1>1, HeadMessage
    <2>2. hd.kind = k
      BY <1>2, <1>3 DEF RowInv, DistinctInv
    <2>3. QED
      BY <1>1, <2>1, <2>2 DEF TakesResponse
  <1>5. ASSUME NEW e \in Matches
        PROVE  /\ Shown(e)' <=> Shown(e) \/ Has(hd.matches, e)
               /\ Has(hd.matches, e) => Queued(e)
               /\ Queued(e)' => \E i \in 1..Len(Queue') : Has(Queue[i + 1].matches, e)
               /\ Queued(e)' => Queued(e)
    <2>1. Shown(e)' <=> Shown(e) \/ Has(hd.matches, e)
      <3>1. matches[k] \in Seq(Matches)
        BY <1>1
      <3>2. Has(matches[k] \o hd.matches, e) <=> Has(matches[k], e) \/ Has(hd.matches, e)
        BY <1>4, <3>1, HasConcat
      <3>3. QED
        BY <1>4, <3>2 DEF Shown, Has
    <2>2. Has(hd.matches, e) => Queued(e)
      BY <1>2, <1>3 DEF Queued
    <2>3. Queued(e)' => \E i \in 1..Len(Queue') : Has(Queue[i + 1].matches, e)
      BY <1>2, <1>3 DEF Queued, Has
    <2>4. (\E i \in 1..Len(Queue') : Has(Queue[i + 1].matches, e)) => Queued(e)
      <3>1. \A i \in 1..Len(Queue') : i + 1 \in DOMAIN Queue
        BY <1>2, <1>3
      <3>2. QED
        BY <3>1 DEF Queued
    <2>5. QED
      BY <2>1, <2>2, <2>3, <2>4
  <1>6. \A h \in Holders : Located(h)' <=> Located(h)
    BY DEF Located, TakesResponse, taskVars, OnItsWay, Has
  <1>7. /\ UNCHANGED taskVars
        /\ \A q \in Requests : (GaveBack(q)' <=> GaveBack(q)) /\ held'[q] = held[q]
    BY SearchUntouched DEF TakesResponse
  <1>8. PositionInv'
    <2>1. \A e \in Matches : e.by \in Requests
      BY DEF Matches
    <2>2. \A h \in Holders : h.by \in Requests \cup {None}
      BY DEF Holders
    <2>3. QED
      BY <1>5, <1>6, <1>7, <2>1, <2>2 DEF RowInv, PositionInv
  <1>9. DistinctInv'
    <2>1. \A l \in Kinds : l # plan'.kind => matches'[l] = <<>>
      BY <1>4 DEF RowInv, DistinctInv
    <2>2. ASSUME NEW i \in 1..Len(Queue')
          PROVE  i + 1 \in DOMAIN Queue /\ i + 1 # 1 /\ Queue'[i] = Queue[i + 1]
      BY <1>2, <1>3
    <2>3. \A i \in DOMAIN Queue' : Queue'[i].kind = plan'.kind
      BY <1>3, <2>2 DEF RowInv, DistinctInv
    <2>4. ASSUME NEW i \in DOMAIN Queue', NEW j \in DOMAIN Queue',
                 NEW x \in DOMAIN Queue'[i].matches, NEW y \in DOMAIN Queue'[j].matches,
                 Queue'[i].matches[x] = Queue'[j].matches[y]
          PROVE  i = j /\ x = y
      <3> DEFINE a == i + 1
                 b == j + 1
      <3>0. /\ a \in DOMAIN Queue /\ Queue'[i] = Queue[a]
            /\ b \in DOMAIN Queue /\ Queue'[j] = Queue[b]
        BY <1>3, <2>2
      <3> HIDE DEF a, b
      <3>01. /\ x \in DOMAIN Queue[a].matches /\ y \in DOMAIN Queue[b].matches
             /\ Queue[a].matches[x] = Queue[b].matches[y]
        BY <2>4, <3>0
      <3>02. a = b /\ x = y
        BY <3>0, <3>01 DEF RowInv, DistinctInv
      <3>1. i + 1 = j + 1 /\ x = y
        BY <3>02 DEF a, b
      <3>2. i \in Nat /\ j \in Nat
        BY <1>3
      <3>3. QED
        BY <3>1, <3>2
    <2>5. \A j \in DOMAIN Queue : \A x \in DOMAIN hd.matches, y \in DOMAIN Queue[j].matches :
             hd.matches[x] = Queue[j].matches[y] => 1 = j /\ x = y
      <3>1. Queue[1] = hd
        BY <1>2
      <3>2. \A j \in DOMAIN Queue : \A x \in DOMAIN Queue[1].matches, y \in DOMAIN Queue[j].matches :
              Queue[1].matches[x] = Queue[j].matches[y] => 1 = j /\ x = y
        BY <1>3 DEF RowInv, DistinctInv
      <3>3. QED
        BY <3>1, <3>2
    <2>6. \A x, y \in DOMAIN hd.matches : hd.matches[x] = hd.matches[y] => x = y
      <3>1. Queue[1] = hd
        BY <1>2
      <3>2. QED
        BY <1>3, <2>5, <3>1
    <2>7. ASSUME NEW e \in Matches, Shown(e)', Queued(e)' PROVE FALSE
      <3>1. CASE Shown(e)
        BY <1>5, <2>7, <3>1 DEF RowInv, DistinctInv
      <3>2. CASE Has(hd.matches, e)
        <4>1. PICK i \in 1..Len(Queue') : Has(Queue[i + 1].matches, e)
          BY <1>5, <2>7
        <4>2. PICK x \in DOMAIN hd.matches : hd.matches[x] = e
          BY <3>2 DEF Has
        <4>3. PICK y \in DOMAIN Queue[i + 1].matches : Queue[i + 1].matches[y] = e
          BY <4>1 DEF Has
        <4>4. i + 1 = 1
          BY <2>5, <2>2, <4>2, <4>3
        <4>5. QED
          BY <2>2, <4>4
      <3>3. QED
        BY <1>5, <2>7, <3>1, <3>2
    <2>8. ASSUME NEW i \in DOMAIN matches'[k], NEW j \in DOMAIN matches'[k],
                 matches'[k][i] = matches'[k][j]
          PROVE  i = j
      <3> DEFINE a == matches[k]
                 b == hd.matches
                 c == a \o b
      <3>1. a \in Seq(Matches) /\ b \in Seq(Matches) /\ matches'[k] = c
        BY <1>1, <1>4
      <3>2. /\ \A u, v \in DOMAIN a : a[u] = a[v] => u = v
            /\ \A u, v \in DOMAIN b : b[u] = b[v] => u = v
            /\ \A u \in DOMAIN a, v \in DOMAIN b : a[u] # b[v]
        <4>1. \A u, v \in DOMAIN a : a[u] = a[v] => u = v
          BY DEF RowInv, DistinctInv
        <4>2. \A u, v \in DOMAIN b : b[u] = b[v] => u = v
          BY <2>6
        <4>3. ASSUME NEW u \in DOMAIN a, NEW v \in DOMAIN b PROVE a[u] # b[v]
          <5>1. a[u] \in Matches
            BY <3>1, ElementOfSeq, LenProperties
          <5>2. Shown(a[u]) /\ ~Queued(a[u])
            BY <5>1 DEF RowInv, DistinctInv, Shown, Has
          <5>3. a[u] = b[v] => Has(hd.matches, a[u])
            BY DEF Has
          <5>4. QED
            BY <1>5, <5>1, <5>2, <5>3
        <4>4. QED
          BY <4>1, <4>2, <4>3
      <3> HIDE DEF a, b, c
      <3>3. QED
        BY <2>8, <3>1, <3>2, ConcatDistinct DEF c
    <2>9. QED
      BY <2>1, <2>3, <2>4, <2>7, <2>8 DEF DistinctInv
  <1>10. QED
    BY <1>7, <1>8, <1>9, SearchUntouched DEF RowInv
\* An update extends a search whose holder is at home, so nobody else has
\* read with it: what is found is further on than all there is.
LEMMA UpdateKeepsRows ==
    ASSUME IInv, IInv', RowInv, SearchesOn, plan' = plan
    PROVE  RowInv'
  <1> USE DEF loopVars, viewVars
  <1> DEFINE k == plan.kind
             R == [kind : Kinds, matches : Seq(Matches)]
             h == holder[k]
             n == Head(requests).upTo
  <1>1. /\ TypeOK /\ responses \in Seq(R) /\ pending = <<>> /\ requests \in Seq(Messages)
        /\ requests # <<>> /\ Head(requests) \in Messages /\ requests' = Tail(requests)
        /\ holder \in [Kinds -> Holders] /\ k \in Kinds /\ h \in Holders /\ n \in Nat
    <2>1. /\ TypeOK /\ responses \in Seq(R) /\ pending = <<>> /\ requests \in Seq(Messages)
          /\ requests # <<>> /\ requests' = Tail(requests)
          /\ holder \in [Kinds -> Holders]
      BY DEF SearchesOn, Serves, IInv, TypeOK
    <2>2. Head(requests) \in Messages
      BY <2>1, HeadMessage
    <2>3. n \in Nat
      BY <2>2 DEF Messages
    <2>4. QED
      BY <2>1, <2>2, <2>3, KindOfPlan
  <1>2. Head(requests).kind = k /\ slot[k] = "Available" /\ slot' = slot
    BY <1>1 DEF SearchesOn, IInv, OwnerInv, Messages
  <1>3. PICK f : /\ pending' = <<[kind |-> k, matches |-> f]>>
                 /\ \/ f = FoundBy(h, n) /\ ~Idles(h, n) /\ holder' = [holder EXCEPT ![k] = Advanced(h, n)]
                    \/ f = <<>> /\ holder' = holder
    BY <1>2 DEF SearchesOn
  <1>4. /\ f \in Seq(Matches) /\ holder'[k] \in Holders /\ holder'[k].by = h.by
        /\ h.upTo <= holder'[k].upTo
        /\ \A e \in Matches : Has(f, e) =>
             e.by = h.by /\ h.upTo < e.row /\ e.row <= holder'[k].upTo
        /\ \A i, j \in DOMAIN f : f[i] = f[j] => i = j
    <2>1. h.upTo \in Nat
      BY <1>1 DEF Holders
    <2>2. CASE f = <<>> /\ holder' = holder
      BY <1>1, <2>1, <2>2 DEF Has
    <2>3. CASE f = FoundBy(h, n) /\ ~Idles(h, n) /\ holder' = [holder EXCEPT ![k] = Advanced(h, n)]
      <3>1. /\ n > h.upTo /\ h.by # None /\ n - h.upTo \in Nat
        BY <1>1, <2>1, <2>3 DEF Idles
      <3>2. f \in Seq(Matches) /\ Advanced(h, n) \in Holders
        BY <1>1, <2>1, <2>3, <3>1, FoundByType
      <3>3. /\ holder'[k] = Advanced(h, n) /\ holder'[k].by = h.by /\ holder'[k].upTo = n
        BY <1>1, <2>3 DEF Advanced, Holders
      <3>4. /\ DOMAIN f = 1..(n - h.upTo)
            /\ \A i \in 1..(n - h.upTo) : f[i].by = h.by /\ f[i].row = h.upTo + i
        BY <2>3 DEF FoundBy
      <3> HIDE DEF h, n
      <3>5. \A i, j \in DOMAIN f : f[i] = f[j] => i = j
        BY <2>1, <3>1, <3>4
      <3>6. ASSUME NEW e \in Matches, Has(f, e)
            PROVE  e.by = h.by /\ h.upTo < e.row /\ e.row <= n
        <4>1. PICK i \in 1..(n - h.upTo) : f[i] = e
          BY <3>4, <3>6 DEF Has
        <4>2. e.by = h.by /\ e.row = h.upTo + i
          BY <3>4, <4>1
        <4>3. QED
          BY <1>1, <2>1, <3>1, <4>1, <4>2
      <3>7. QED
        BY <1>1, <2>1, <3>1, <3>2, <3>3, <3>5, <3>6
    <2>4. QED
      BY <1>3, <2>2, <2>3
  <1> HIDE DEF n
  \* Nobody else has the holder, ...
  <1>5. /\ \A x : OnItsWay(x)' => OnItsWay(x)
        /\ \A x \in Messages : OnItsWay(x) => x.cmd # "Set"
        /\ ~(serving.cmd = "Get" /\ answer.status = "ok")
        /\ \A r \in Requests : ~(pc[r] = "get" /\ reply[r].status = "ok")
    <2>1. \A r \in Requests : ~Borrows(r)
      BY <1>2 DEF IInv, OwnerInv
    <2>2. ASSUME NEW x \in Messages, OnItsWay(x), x.cmd = "Set" PROVE FALSE
      <3>1. Sound(x) /\ x.from \in Requests
        BY <2>2, SoundOnItsWay DEF IInv, Sound, Messages
      <3>2. pc[x.from] \in {"putBack", "put", "fail", "cancel"} /\ reply[x.from] = NoReply
        BY <2>2, <3>1, ConstantsAssumption DEF Sound, Awaits
      <3>3. QED
        BY <2>1, <3>1, <3>2 DEF Borrows
    <2>3. serving.cmd = "Get" => serving.from \in Requests
      BY DEF IInv, ServiceInv, IsAnswered, Sound, TypeOK, Messages
    <2>4. \A x : Has(requests', x) => Has(requests, x)
      BY <1>1, HasParts
    <2>5. \A x : OnItsWay(x)' => OnItsWay(x)
      BY <2>4 DEF OnItsWay, SearchesOn, Has
    <2>6. QED
      BY <2>1, <2>2, <2>3, <2>5 DEF Borrows
  <1>6. ASSUME NEW x \in Holders, Located(x)' PROVE x = holder'[k] /\ Located(h)
    BY <1>2, <1>5, <1>6 DEF Located, SearchesOn, taskVars
  \* ... and the queue is longer by what is found.
  <1>7. /\ Queue \in Seq(R) /\ [kind |-> k, matches |-> f] \in R
        /\ Queue' = Append(Queue, [kind |-> k, matches |-> f])
    <2> DEFINE g == [kind |-> k, matches |-> f]
    <2>1. g \in R
      BY <1>1, <1>4
    <2>2. Queue = responses
      BY <1>1, ConcatEmptySeq DEF Queue
    <2>3. Queue' = responses \o <<g>>
      BY <1>3 DEF Queue, SearchesOn
    <2> HIDE DEF g, R
    <2>4. Append(responses, g) = responses \o <<g>>
      BY <1>1, <2>1, AppendIsConcat
    <2>5. QED
      BY <1>1, <2>1, <2>2, <2>3, <2>4 DEF g
  <1>8. /\ Len(Queue) \in Nat /\ DOMAIN Queue = 1..Len(Queue)
        /\ DOMAIN Queue' = 1..(Len(Queue) + 1)
        /\ \A i \in 1..Len(Queue) : Queue'[i] = Queue[i]
        /\ Queue'[Len(Queue) + 1].kind = k /\ Queue'[Len(Queue) + 1].matches = f
    <2> DEFINE g == [kind |-> k, matches |-> f]
               Q == Queue
    <2>1. /\ Q \in Seq(R) /\ g \in R /\ g.kind = k /\ g.matches = f
          /\ Queue' = Append(Q, g)
      BY <1>7
    <2> HIDE DEF g, R, Q
    <2>2. /\ Append(Q, g) \in Seq(R) /\ Len(Append(Q, g)) = Len(Q) + 1
          /\ \A i \in 1..Len(Q) : Append(Q, g)[i] = Q[i]
          /\ Append(Q, g)[Len(Q) + 1] = g
      BY <2>1, AppendProperties
    <2>3. Len(Q) \in Nat /\ DOMAIN Q = 1..Len(Q) /\ DOMAIN Append(Q, g) = 1..Len(Append(Q, g))
      BY <2>1, <2>2, LenProperties
    <2>4. QED
      BY <2>1, <2>2, <2>3 DEF Q
  <1>9. /\ \A e \in Matches : Shown(e)' <=> Shown(e)
        /\ \A e \in Matches : Queued(e)' => Queued(e) \/ Has(f, e)
    <2>1. ASSUME NEW e \in Matches, Queued(e)' PROVE Queued(e) \/ Has(f, e)
      <3>1. PICK i \in 1..(Len(Queue) + 1) : Has(Queue'[i].matches, e)
        BY <1>8, <2>1 DEF Queued, Has
      <3>2. CASE i \in 1..Len(Queue)
        BY <1>8, <3>1, <3>2 DEF Queued
      <3>3. CASE i = Len(Queue) + 1
        BY <1>8, <3>1, <3>3
      <3>4. QED
        BY <1>8, <3>1, <3>2, <3>3
    <2>2. QED
      BY <2>1 DEF Shown, Has, SearchesOn
  <1>10. /\ UNCHANGED taskVars
         /\ \A q \in Requests : (GaveBack(q)' <=> GaveBack(q)) /\ held'[q] = held[q]
    BY SearchUntouched DEF SearchesOn
  <1>11. /\ \A e \in Matches : e.by \in Requests /\ e.row \in Nat
         /\ \A x \in Holders : x.by \in Requests \cup {None} /\ x.upTo \in Nat
         /\ \A q \in Requests : q # None /\ held[q].upTo \in Nat
    BY <1>1, ConstantsAssumption DEF Matches, Holders, TypeOK
  <1>12. Located(h) /\ (h.by # None => GaveBack(h.by) /\ held[h.by].upTo <= h.upTo)
    BY <1>1, <1>2 DEF Located, RowInv, PositionInv
  <1>13. PositionInv'
    <2>1. ASSUME NEW x \in Holders, Located(x)', x.by # None
          PROVE  GaveBack(x.by)' /\ held'[x.by].upTo <= x.upTo
      <3>1. x = holder'[k] /\ x.by = h.by /\ h.upTo <= x.upTo
        BY <1>4, <1>6, <2>1
      <3>2. GaveBack(h.by) /\ held[h.by].upTo <= h.upTo /\ h.by \in Requests
        BY <1>1, <1>11, <1>12, <2>1, <3>1
      <3>3. QED
        BY <1>1, <1>10, <1>11, <3>1, <3>2
    <2>2. ASSUME NEW e \in Matches, Shown(e)' \/ Queued(e)' PROVE GaveBack(e.by)'
      <3>1. CASE Shown(e) \/ Queued(e)
        BY <1>10, <1>11, <3>1 DEF RowInv, PositionInv
      <3>2. CASE Has(f, e)
        BY <1>4, <1>10, <1>11, <1>12, <3>2
      <3>3. QED
        BY <1>9, <2>2, <3>1, <3>2
    <2>3. ASSUME NEW e \in Matches, NEW x \in Holders,
                 Shown(e)' \/ Queued(e)', Located(x)', e.by = x.by
          PROVE  e.row <= x.upTo
      <3>1. x = holder'[k] /\ x.by = h.by /\ h.upTo <= x.upTo
        BY <1>4, <1>6, <2>3
      <3>2. CASE Shown(e) \/ Queued(e)
        <4>1. e.row <= h.upTo
          BY <1>1, <1>12, <2>3, <3>1, <3>2 DEF RowInv, PositionInv
        <4>2. QED
          BY <1>1, <1>11, <3>1, <4>1
      <3>3. CASE Has(f, e)
        BY <1>4, <3>1, <3>3
      <3>4. QED
        BY <1>9, <2>3, <3>2, <3>3
    <2>4. ASSUME NEW e \in Matches, Queued(e)' PROVE held'[e.by].upTo < e.row
      <3>1. CASE Queued(e)
        BY <1>10, <1>11, <3>1 DEF RowInv, PositionInv
      <3>2. CASE Has(f, e)
        <4>1. e.by = h.by /\ h.upTo < e.row /\ held[e.by].upTo <= h.upTo
          BY <1>4, <1>11, <1>12, <3>2
        <4>2. /\ held'[e.by] = held[e.by] /\ held[e.by].upTo \in Nat
              /\ e.row \in Nat /\ h.upTo \in Nat
          BY <1>1, <1>10, <1>11
        <4>3. QED
          BY <4>1, <4>2
      <3>3. QED
        BY <1>9, <2>4, <3>1, <3>2
    <2>5. QED
      BY <2>1, <2>2, <2>3, <2>4 DEF PositionInv
  \* What is found is neither shown nor queued yet.
  <1>14. \A e \in Matches : Has(f, e) => ~Shown(e) /\ ~Queued(e)
    <2> SUFFICES ASSUME NEW e \in Matches, Has(f, e), Shown(e) \/ Queued(e) PROVE FALSE
      OBVIOUS
    <2>1. e.by = h.by /\ h.upTo < e.row
      BY <1>4
    <2>2. e.row <= h.upTo
      BY <1>1, <1>12, <2>1 DEF RowInv, PositionInv
    <2>3. QED
      BY <1>1, <1>11, <2>1, <2>2
  <1>15. DistinctInv'
    <2>1. /\ \A l \in Kinds : l # plan'.kind => matches'[l] = <<>>
          /\ \A i, j \in DOMAIN matches'[plan'.kind] :
               matches'[plan'.kind][i] = matches'[plan'.kind][j] => i = j
      BY DEF SearchesOn, RowInv, DistinctInv
    <2>2. \A i \in DOMAIN Queue' : Queue'[i].kind = plan'.kind
      BY <1>8 DEF RowInv, DistinctInv
    <2>3. \A e \in Matches : ~(Shown(e)' /\ Queued(e)')
      BY <1>9, <1>14 DEF RowInv, DistinctInv
    <2>4. ASSUME NEW i \in DOMAIN Queue', NEW j \in DOMAIN Queue',
                 NEW x \in DOMAIN Queue'[i].matches, NEW y \in DOMAIN Queue'[j].matches,
                 Queue'[i].matches[x] = Queue'[j].matches[y]
          PROVE  i = j /\ x = y
      <3>1. \A l \in 1..Len(Queue) : \A z \in DOMAIN f, u \in DOMAIN Queue[l].matches :
              f[z] # Queue[l].matches[u]
        <4> SUFFICES ASSUME NEW l \in 1..Len(Queue), NEW z \in DOMAIN f,
                            NEW u \in DOMAIN Queue[l].matches, f[z] = Queue[l].matches[u]
                     PROVE  FALSE
          OBVIOUS
        <4>1. f[z] \in Matches /\ Has(f, f[z])
          BY <1>4, LenProperties, ElementOfSeq DEF Has
        <4>2. Queued(f[z])
          BY <1>8 DEF Queued, Has
        <4>3. QED
          BY <1>14, <4>1, <4>2
      <3>2. CASE i \in 1..Len(Queue) /\ j \in 1..Len(Queue)
        BY <1>8, <2>4, <3>2 DEF RowInv, DistinctInv
      <3>3. CASE i = Len(Queue) + 1 /\ j = Len(Queue) + 1
        BY <1>4, <1>8, <2>4, <3>3
      <3>4. CASE i \in 1..Len(Queue) /\ j = Len(Queue) + 1
        BY <1>8, <2>4, <3>1, <3>4
      <3>5. CASE i = Len(Queue) + 1 /\ j \in 1..Len(Queue)
        BY <1>8, <2>4, <3>1, <3>5
      <3>6. QED
        BY <1>8, <3>2, <3>3, <3>4, <3>5
    <2>5. QED
      BY <2>1, <2>2, <2>3, <2>4 DEF DistinctInv
  <1>16. QED
    BY <1>10, <1>13, <1>15, SearchUntouched DEF RowInv
\* The searchers lend the holder, take it back, drop it or pass an update on.
LEMMA SearchersKeepRows ==
    ASSUME IInv, IInv', RowInv, plan' = plan,
           SkipsUpdate \/ Responds \/ LendsHolder \/ TakesHolderBack \/ DropsHolder
    PROVE  RowInv'
  <1> USE DEF loopVars, searchVars, viewVars
  <1> DEFINE m == Head(requests)
  <1>1. /\ TypeOK /\ requests \in Seq(Messages) /\ matches \in [Kinds -> Seq(Matches)]
        /\ reply \in [Requests -> Replies] /\ slot \in [Kinds -> {"NotInited", "Available", "InUse"}]
        /\ holder \in [Kinds -> Holders] /\ plan.kind \in Kinds
        /\ NewHolder.by = None
    BY KindOfPlan DEF IInv, TypeOK, NewHolder
  <1>2. ASSUME NEW cmd, Serves(cmd)
        PROVE  /\ m \in Messages /\ m.cmd = cmd /\ OnItsWay(m) /\ Sound(m) /\ pending = <<>>
               /\ \A x : Has(requests', x) => Has(requests, x)
    BY <1>1, <1>2, HasParts, HeadMessage, HeadOfLine DEF Serves, OnItsWay, IInv
  <1>3. UNCHANGED taskVars /\ matches' = matches /\ outbox' = outbox /\ api' = api
    BY DEF SkipsUpdate, Responds, LendsHolder, TakesHolderBack, DropsHolder
  <1>4. \A x : OnItsWay(x)' => OnItsWay(x)
    <2>1. \A x : Has(requests', x) => Has(requests, x)
      BY <1>2 DEF SkipsUpdate, Responds, LendsHolder, TakesHolderBack, DropsHolder
    <2>2. QED
      BY <1>3, <2>1 DEF OnItsWay, Has
  <1>5. CASE SkipsUpdate
    <2>1. Queue' = Queue /\ \A h \in Holders : Located(h)' => Located(h)
      BY <1>3, <1>4, <1>5 DEF SkipsUpdate, Queue, Located, taskVars
    <2>2. QED
      BY <1>3, <2>1, PassingKeepsRows
  <1>6. CASE Responds
    <2> DEFINE R == [kind : Kinds, matches : Seq(Matches)]
    <2>1. Queue' = Queue
      <3>1. responses \in Seq(R) /\ pending \in Seq(R)
        BY DEF IInv, TypeOK
      <3>2. responses \o pending \in Seq(R)
        BY <3>1, ConcatProperties
      <3>3. (responses \o pending) \o <<>> = responses \o pending
        BY <3>2, ConcatEmptySeq
      <3>4. QED
        BY <1>6, <3>3 DEF Responds, Queue
    <2>2. \A h \in Holders : Located(h)' => Located(h)
      BY <1>3, <1>4, <1>6 DEF Responds, Located, taskVars
    <2>3. QED
      BY <1>3, <2>1, <2>2, PassingKeepsRows
  <1>7. CASE LendsHolder
    <2>1. m.kind = plan.kind /\ Serves("Get")
      BY <1>2, <1>7 DEF LendsHolder, Sound, IsAnswered
    <2>2. /\ answer' = IF slot[plan.kind] = "InUse" THEN No ELSE Reply("ok", holder[plan.kind], 0)
          /\ slot'[plan.kind] = "InUse" /\ serving' = serving /\ reply' = reply
      BY <1>1, <1>7, <2>1 DEF LendsHolder
    <2>3. ASSUME NEW h \in Holders, Located(h)' PROVE Located(h)
      <3>1. CASE answer'.status = "ok" /\ h = answer'.holder
        <4>1. slot[plan.kind] # "InUse" /\ h = holder[plan.kind]
          BY <2>2, <3>1 DEF No, Reply
        <4>2. QED
          BY <4>1 DEF Located
      <3>2. CASE ~(answer'.status = "ok" /\ h = answer'.holder)
        BY <1>3, <1>4, <2>2, <2>3, <3>2 DEF Located, taskVars
      <3>3. QED
        BY <3>1, <3>2
    <2>4. Queue' = Queue
      BY <1>7 DEF LendsHolder, Queue
    <2>5. QED
      BY <1>3, <2>3, <2>4, PassingKeepsRows
  <1>8. CASE TakesHolderBack
    <2>1. /\ m.kind = plan.kind /\ m \in Messages /\ m.cmd = "Set" /\ OnItsWay(m)
      BY <1>2, <1>8 DEF TakesHolderBack, Sound
    <2>2. /\ \/ slot'[plan.kind] = slot[plan.kind] /\ holder'[plan.kind] = holder[plan.kind]
             \/ holder'[plan.kind] = m.holder
          /\ serving' = serving /\ answer' = answer
      BY <1>1, <1>8, <2>1 DEF TakesHolderBack
    <2>3. \A q \in Requests : reply'[q].status = "ok" =>
             reply'[q] = reply[q] \/ reply'[q].holder = NewHolder
      BY <1>1, <1>8 DEF TakesHolderBack, Answers, Yes, No, Reply
    <2>4. ASSUME NEW h \in Holders, Located(h)' PROVE Located(h) \/ h.by = None
      <3>1. CASE h = m.holder
        BY <2>1, <3>1 DEF Located
      <3>2. CASE h # m.holder
        BY <1>1, <1>3, <1>4, <2>2, <2>3, <2>4, <3>2 DEF Located, taskVars
      <3>3. QED
        BY <3>1, <3>2
    <2>5. Queue' = Queue
      BY <1>8 DEF TakesHolderBack, Queue
    <2>6. QED
      BY <1>3, <2>4, <2>5, PassingKeepsRows
  <1>9. CASE DropsHolder
    <2>1. m \in Messages /\ m.cmd = "Drop"
      BY <1>2, <1>9 DEF DropsHolder
    <2>2. /\ \/ slot'[plan.kind] = slot[plan.kind] /\ holder'[plan.kind] = holder[plan.kind]
             \/ holder'[plan.kind] = NewHolder
          /\ serving' = serving /\ (answer' = answer \/ answer' \in {Yes, No})
      BY <1>1, <1>9, <2>1 DEF DropsHolder
    <2>3. /\ \A q \in Requests : reply'[q].status = "ok" =>
                reply'[q] = reply[q] \/ reply'[q].holder = NewHolder
          /\ Yes.holder = NewHolder /\ No.status # "ok"
      BY <1>1, <1>9 DEF DropsHolder, Answers, Yes, No, Reply
    <2>4. ASSUME NEW h \in Holders, Located(h)' PROVE Located(h) \/ h.by = None
      BY <1>1, <1>3, <1>4, <2>2, <2>3, <2>4 DEF Located, taskVars
    <2>5. Queue' = Queue
      BY <1>9 DEF DropsHolder, Queue
    <2>6. QED
      BY <1>3, <2>4, <2>5, PassingKeepsRows
  <1>10. QED
    BY <1>5, <1>6, <1>7, <1>8, <1>9

LEMMA InitRows == Init => RowInv
  <1> SUFFICES ASSUME Init PROVE RowInv
    OBVIOUS
  <1>1. TypeOK /\ plan.kind \in Kinds
    BY InitType, KindOfPlan
  <1>2. Queue = <<>>
    BY ConcatEmptySeq DEF Init, Queue
  <1>3. \A e : ~Shown(e) /\ ~Queued(e)
    BY <1>1, <1>2 DEF Init, Shown, Queued, Has
  <1>4. ASSUME NEW h \in Holders, Located(h) PROVE h.by = None
    <2>1. ~\E m \in Messages : OnItsWay(m)
      BY DEF Init, OnItsWay, Has
    <2>2. holder[plan.kind].by = None /\ serving.cmd # "Get"
      BY <1>1, MessageParts DEF Init, NewHolder, Nothing
    <2>3. \A r \in Requests : pc[r] # "get"
      BY DEF Init
    <2>4. QED
      BY <1>4, <2>1, <2>2, <2>3 DEF Located
  <1>5. SearchInv
    BY DEF Init, SearchInv, SearchInvOf, Early
  <1>6. PositionInv
    <2>1. \A e \in Matches : e.by # None
      BY ConstantsAssumption DEF Matches
    <2>2. QED
      BY <1>3, <1>4, <2>1 DEF PositionInv
  <1>7. DistinctInv
    BY <1>1, <1>2, <1>3 DEF Init, DistinctInv
  <1>8. QED
    BY <1>5, <1>6, <1>7 DEF RowInv

LEMMA NextRows == IInv /\ IInv' /\ RowInv /\ [Next]_<<plan, vars>> => RowInv'
  <1> SUFFICES ASSUME IInv, IInv', RowInv, [Next]_<<plan, vars>> PROVE RowInv'
    OBVIOUS
  <1> USE DEF chanVars, loopVars, searchVars, viewVars, fileVars, Elsewhere
  <1>1. ASSUME UNCHANGED <<plan, taskVars, reply, api, chanVars, loopVars, searchVars, viewVars>>
        PROVE  RowInv'
    <2>1. Queue' = Queue /\ matches' = matches
      BY <1>1 DEF Queue
    <2>2. \A h \in Holders : Located(h)' => Located(h)
      BY <1>1 DEF Located, taskVars, OnItsWay, Has
    <2>3. QED
      BY <1>1, <2>1, <2>2, PassingKeepsRows
  <1>2. CASE UNCHANGED <<plan, vars>>
    BY <1>1, <1>2 DEF vars
  <1>3. CASE \E r \in Requests : Task(r) /\ plan' = plan
    BY <1>3, TaskKeepsRows
  <1>4. CASE \E r \in Requests : BackgroundEnds(r) /\ plan' = plan
    BY <1>4, BackgroundKeepsRows
  <1>5. CASE \E r \in Requests : Cancelled(r) /\ plan' = plan
    BY <1>1, <1>5 DEF Cancelled
  <1>6. CASE Produces /\ plan' = plan
    BY <1>6, ProducesKeepsRows
  <1>7. CASE State /\ plan' = plan
    BY <1>7, StatePassesRows, AnswersPassRows, MatchesKeepRows, ResponseKeepsRows DEF State
  <1>8. CASE Searchers /\ plan' = plan
    BY <1>8, UpdateKeepsRows, SearchersKeepRows DEF Searchers
  <1>9. QED
    BY <1>2, <1>3, <1>4, <1>5, <1>6, <1>7, <1>8 DEF Next

\* No row is shown twice for one search: of the full search and the updates
\* after it, each reads on where the last one has stopped, wherever the holder
\* has been in between and in whatever order the results arrive.
THEOREM RowsOnce == Spec => []NoRowTwice
  <1>1. RowInv => NoRowTwice
    BY DEF RowInv, DistinctInv, NoRowTwice
  <1>2. Spec => Init /\ [][Next]_<<plan, vars>> /\ []IInv
    BY Invariant, PTL DEF Spec
  <1>3. QED
    BY <1>1, <1>2, InitRows, NextRows, PTL
-----------------------------------------------------------------------------
(* The search map and the indexed map.                                     *)

Synced == indexed = RowsOf(matches["regular"])

\* Every command so far searches, or drops a search.
OnlySearches == \A r \in Requests : pc[r] # "new" => Asked(r) \in {"filters", "drop"}

\* r has, or has just given back, the holder of a search it will set the
\* results of, or drop: the drop is not refused yet.
Restores(r) ==
    \/ Borrows(r)
    \/ pc[r] \in {"search", "tick", "put", "fail", "cancel"}
    \/ pc[r] = "show" /\ reply[r] = NoReply
    \/ /\ pc[r] \in {"failDrop", "cancelDrop"} /\ reply[r] = NoReply
       /\ ~(IsAnswered(serving) /\ serving.from = r /\ answer = No)

\* Whenever the two differ there is somebody who will set or clear both.
SyncInv ==
    /\ plan.kind # "regular" => indexed = {}
    /\ \A r \in Requests : pc[r] = "putBack" => Asked(r) \in {"nofilters", "badfilters"}
    /\ IsAnswered(serving) /\ serving.cmd = "Drop" => answer \in {NoReply, Yes, No}
    /\ stateLoop # "failed" /\ OnlySearches => Synced \/ \E r \in Requests : Restores(r)

\* A step that leaves both maps alone, and somebody to restore them.
LEMMA SyncKept ==
    ASSUME SyncInv, UNCHANGED <<plan, matches, indexed>>,
           \A r \in Requests : pc'[r] = "putBack" => Asked(r) \in {"nofilters", "badfilters"},
           IsAnswered(serving') /\ serving'.cmd = "Drop" => answer' \in {NoReply, Yes, No},
           stateLoop' # "failed" => stateLoop # "failed",
           \A r \in Requests : pc[r] # "new" => pc'[r] # "new",
           ASSUME stateLoop' # "failed", OnlySearches', NEW r \in Requests, Restores(r)
           PROVE  \E q \in Requests : Restores(q)'
    PROVE  SyncInv'
  <1>1. OnlySearches' => OnlySearches
    BY DEF OnlySearches, Asked
  <1>2. Synced' <=> Synced
    BY DEF Synced, RowsOf
  <1>3. stateLoop' # "failed" /\ OnlySearches' => Synced' \/ \E r \in Requests : Restores(r)'
    BY <1>1, <1>2 DEF SyncInv
  <1>4. QED
    BY <1>3 DEF SyncInv, Asked, IsAnswered

\* Who has an answer and is not through yet, while there is a state loop.
LEMMA RestoresAnswered ==
    ASSUME IInv, NEW r \in Requests, Restores(r), stateLoop # "failed",
           reply[r] # NoReply \/ pc[r] \in {"new", "retry", "search", "done", "failed"}
    PROVE  \/ pc[r] = "get" /\ reply[r].status = "ok"
           \/ pc[r] \in {"search", "tick"}
           \/ pc[r] \in {"put", "fail", "cancel"} /\ reply[r].status # "refused"
  <1>1. IsAnswered(serving) => serving.from # r
    BY NoMessage DEF IInv
  <1>2. serving.cmd = "Get" => serving.from # r
    BY <1>1 DEF IsAnswered
  <1>3. QED
    BY <1>2 DEF IInv, ReplyInv, Restores, Borrows

\* The others are not touched by what a command does.
LEMMA OthersRestore ==
    ASSUME TypeOK, NEW r \in Requests,
           \A q \in Requests \ {r} : pc'[q] = pc[q] /\ reply'[q] = reply[q],
           UNCHANGED <<serving, answer>>
    PROVE  \A q \in Requests \ {r} : Restores(q)' <=> Restores(q)
  BY DEF Restores, Borrows, IsAnswered

LEMMA AskKeepsSync ==
    ASSUME IInv, SyncInv, NEW r \in Requests, NEW from, NEW status, NEW m,
           NEW to \in Steps, AskNext(r, from, status, m, to),
           UNCHANGED <<plan, requests, Elsewhere>>, to # "new",
           status # "none" \/ from \in {"new", "retry", "search"},
           \/ from \in {"new", "dropping", "retry", "len"} /\ to # "putBack"
           \/ to \in {"tick", "put", "fail", "show", "failDrop", "cancelDrop"}
           \/ to = "putBack" /\ Asked(r) \in {"nofilters", "badfilters"}
    PROVE  SyncInv'
  <1> USE DEF Elsewhere, loopVars, searchVars, viewVars
  <1>1. /\ TypeOK /\ pc \in [Requests -> Steps] /\ reply \in [Requests -> Replies]
        /\ pc[r] = from /\ reply[r].status = status
        /\ pc' = [pc EXCEPT ![r] = to]
        /\ \A q \in Requests \ {r} : pc'[q] = pc[q] /\ reply'[q] = reply[q]
        /\ stateLoop # "failed" => reply'[r] = NoReply
    BY DEF AskNext, Ask, IInv, TypeOK
  <1>2. reply[r] # NoReply \/ pc[r] \in {"new", "retry", "search", "done", "failed"}
    BY <1>1 DEF NoReply, Reply
  <1>3. IsAnswered(serving) => serving.from # r
    BY <1>2, NoMessage DEF IInv
  <1>4. ASSUME stateLoop' # "failed", OnlySearches', Restores(r) PROVE Restores(r)'
    <2>1. to \in {"tick", "put", "fail", "show", "failDrop", "cancelDrop"}
      <3>1. from \notin {"new", "dropping", "retry", "len"}
        BY <1>1, <1>2, <1>4, RestoresAnswered
      <3>2. pc'[r] # "new" /\ pc'[r] = to
        BY <1>1
      <3>3. Asked(r) \in {"filters", "drop"}
        BY <1>4, <3>2 DEF OnlySearches, Asked
      <3>4. QED
        BY <3>1, <3>3
    <2>2. pc'[r] = to /\ reply'[r] = NoReply /\ serving' = serving
      BY <1>1, <1>4
    <2>3. QED
      BY <1>3, <2>1, <2>2 DEF Restores, IsAnswered
  <1>5. \A q \in Requests \ {r} : Restores(q)' <=> Restores(q)
    BY <1>1, OthersRestore
  <1>6. /\ \A q \in Requests : pc'[q] = "putBack" => Asked(q) \in {"nofilters", "badfilters"}
        /\ \A q \in Requests : pc[q] # "new" => pc'[q] # "new"
    BY <1>1 DEF SyncInv
  <1>7. IsAnswered(serving') /\ serving'.cmd = "Drop" => answer' \in {NoReply, Yes, No}
    BY DEF SyncInv
  <1>8. QED
    BY <1>4, <1>5, <1>6, <1>7, SyncKept

LEMMA EndsKeepsSync ==
    ASSUME IInv, SyncInv, NEW r \in Requests, NEW from, NEW status, NEW to \in Steps,
           Ends(r, from, status, to), status # "none", to \notin {"new", "putBack"},
           UNCHANGED <<plan, requests, Elsewhere>>,
           \/ to = "search" \/ status = "lost"
           \/ from \notin {"get", "search", "tick", "put", "fail", "cancel"}
           \/ status = "refused" /\ from \in {"get", "put", "fail", "cancel"}
    PROVE  SyncInv'
  <1> USE DEF Elsewhere, loopVars, searchVars, viewVars
  <1>1. /\ TypeOK /\ pc \in [Requests -> Steps] /\ reply \in [Requests -> Replies]
        /\ pc[r] = from /\ reply[r].status = status
        /\ pc' = [pc EXCEPT ![r] = to]
        /\ \A q \in Requests \ {r} : pc'[q] = pc[q] /\ reply'[q] = reply[q]
    BY DEF Ends, IInv, TypeOK
  <1>2. reply[r] # NoReply
    BY <1>1 DEF NoReply, Reply
  <1>3. ASSUME stateLoop' # "failed", Restores(r) PROVE Restores(r)'
    <2>1. status # "lost"
      BY <1>1, <1>3 DEF IInv, ReplyInv
    <2>2. to = "search"
      BY <1>1, <1>2, <1>3, <2>1, RestoresAnswered
    <2>3. QED
      BY <1>1, <2>2 DEF Restores
  <1>4. \A q \in Requests \ {r} : Restores(q)' <=> Restores(q)
    BY <1>1, OthersRestore
  <1>5. /\ \A q \in Requests : pc'[q] = "putBack" => Asked(q) \in {"nofilters", "badfilters"}
        /\ \A q \in Requests : pc[q] # "new" => pc'[q] # "new"
    BY <1>1 DEF SyncInv
  <1>6. IsAnswered(serving') /\ serving'.cmd = "Drop" => answer' \in {NoReply, Yes, No}
    BY DEF SyncInv
  <1>7. QED
    BY <1>3, <1>4, <1>5, <1>6, SyncKept

LEMMA CancelKeepsSync ==
    ASSUME IInv, SyncInv, NEW r \in Requests, CancelSeen(r), plan' = plan
    PROVE  SyncInv'
  <1> USE DEF searchVars, viewVars
  <1>1. /\ pc \in [Requests -> Steps] /\ reply \in [Requests -> Replies] /\ serving \in Messages
        /\ pc' = [pc EXCEPT ![r] = "cancel"] /\ pc'[r] = "cancel" /\ r # None
        /\ \A q \in Requests \ {r} : pc'[q] = pc[q] /\ reply'[q] = reply[q] /\ q # None
    BY ConstantsAssumption DEF CancelSeen, IInv, TypeOK
  <1>2. /\ serving'.cmd = serving.cmd /\ serving'.kind = serving.kind /\ answer' = answer
        /\ \A q \in Requests \ {r} : serving'.from = q <=> serving.from = q
    BY <1>1 DEF CancelSeen, Messages
  <1>3. \A q \in Requests : Restores(q) => Restores(q)'
    BY <1>1, <1>2 DEF Restores, Borrows, IsAnswered
  <1>4. /\ \A q \in Requests : pc'[q] = "putBack" => Asked(q) \in {"nofilters", "badfilters"}
        /\ \A q \in Requests : pc[q] # "new" => pc'[q] # "new"
    BY <1>1 DEF SyncInv
  <1>5. IsAnswered(serving') /\ serving'.cmd = "Drop" => answer' \in {NoReply, Yes, No}
    BY <1>2 DEF SyncInv, IsAnswered
  <1>6. UNCHANGED <<matches, indexed, stateLoop>>
    BY DEF CancelSeen
  <1>7. QED
    BY <1>3, <1>4, <1>5, <1>6, SyncKept

LEMMA TaskKeepsSync ==
    ASSUME IInv, SyncInv, NEW r \in Requests, Task(r), plan' = plan
    PROVE  SyncInv'
  <1> USE DEF Elsewhere
  <1>1. CASE Starts(r)
    <2>1. PICK to \in {"clearing", "dropping"} : AskNext(r, "new", "none", DropOf(r), to)
      BY <1>1 DEF Starts
    <2>2. to \in Steps /\ UNCHANGED <<plan, requests, Elsewhere>>
      BY <1>1, <2>1 DEF Steps, Starts
    <2>3. QED
      BY <2>1, <2>2, AskKeepsSync
  <1>2. CASE Dropped(r)
    BY <1>2, AskKeepsSync DEF Dropped, Steps
  <1>3. CASE NotDropped(r)
    <2>1. PICK to \in {"failed", "retry"} : Ends(r, "dropping", "refused", to)
      BY <1>3 DEF NotDropped
    <2>2. to \in Steps /\ UNCHANGED <<plan, requests, Elsewhere>>
      BY <1>3, <2>1 DEF Steps, NotDropped
    <2>3. QED
      BY <2>1, <2>2, EndsKeepsSync
  <1>4. CASE DropsAgain(r)
    BY <1>4, AskKeepsSync DEF DropsAgain, Steps
  <1>5. CASE LenKnown(r)
    BY <1>5, AskKeepsSync DEF LenKnown, Steps
  <1>6. CASE SearchSpawned(r)
    BY <1>6, EndsKeepsSync DEF SearchSpawned, Steps
  <1>7. CASE PutsBack(r)
    <2>1. PICK h \in {[reply[r].holder EXCEPT !.by = None], reply[r].holder} :
             AskNext(r, "get", "ok", Giving(r, h), "putBack")
      BY <1>7 DEF PutsBack
    <2>2. /\ "putBack" \in Steps /\ Asked(r) \in {"nofilters", "badfilters"}
          /\ UNCHANGED <<plan, requests, Elsewhere>>
      BY <1>7 DEF PutsBack, Steps
    <2>3. QED
      BY <2>1, <2>2, AskKeepsSync
  <1>8. CASE ResultTaken(r)
    <2>1. PICK m \in {Giving(r, held[r]), GivingNothing(r)}, to \in {"put", "fail"} :
             AskNext(r, "search", "none", m, to)
      BY <1>8 DEF ResultTaken
    <2>2. to \in Steps /\ UNCHANGED <<plan, requests, Elsewhere>>
      BY <1>8, <2>1 DEF ResultTaken, Steps
    <2>3. QED
      BY <2>1, <2>2, AskKeepsSync
  <1>9. CASE Ticks(r)
    <2>1. PICK m \in {Message("Clear", KindOf(r), r), Message("Drop", KindOf(r), r)} :
             AskNext(r, "search", "none", m, "tick")
      BY <1>9 DEF Ticks
    <2>2. "tick" \in Steps /\ UNCHANGED <<plan, requests, Elsewhere>>
      BY <1>9 DEF Ticks, Steps
    <2>3. QED
      BY <2>1, <2>2, AskKeepsSync
  <1>10. CASE TickAnswered(r)
    BY <1>10, EndsKeepsSync DEF TickAnswered, Steps
  <1>11. CASE CancelSeen(r)
    BY <1>11, CancelKeepsSync
  <1>12. CASE HolderReturned(r)
    <2>1. /\ {"show", "failDrop", "cancelDrop"} \subseteq Steps
          /\ UNCHANGED <<plan, requests, Elsewhere>>
      BY <1>12 DEF HolderReturned, Steps
    <2>2. QED
      BY <1>12, <2>1, AskKeepsSync DEF HolderReturned
  <1>13. CASE TaskEnds(r)
    <2>1. PICK from \in Steps, status \in {"ok", "refused", "lost"}, to \in {"done", "failed"} :
             /\ Ends(r, from, status, to)
             /\ \/ status = "lost"
                \/ from \in {"show", "putBack", "failDrop", "cancelDrop", "clearing"}
                \/ status = "refused" /\ from \in {"get", "put", "fail", "cancel"}
      <3>1. pc[r] \in Steps
        BY DEF IInv, TypeOK
      <3>2. QED
        BY <1>13, <3>1 DEF TaskEnds, Steps
    <2>2. to \in Steps /\ UNCHANGED <<plan, requests, Elsewhere>>
      BY <1>13, <2>1 DEF TaskEnds, Steps
    <2>3. QED
      BY <2>1, <2>2, EndsKeepsSync
  <1>14. QED
    BY <1>1, <1>2, <1>3, <1>4, <1>5, <1>6, <1>7, <1>8, <1>9, <1>10, <1>11, <1>12, <1>13 DEF Task
\* Steps of the state loop and the searchers that leave both maps alone.
LEMMA LoopKeepsSync ==
    ASSUME IInv, SyncInv, UNCHANGED <<plan, pc, matches, indexed>>,
           IsAnswered(serving') /\ serving'.cmd = "Drop" => answer' \in {NoReply, Yes, No},
           stateLoop' # "failed" => stateLoop # "failed",
           ASSUME stateLoop' # "failed", OnlySearches, NEW r \in Requests, Restores(r)
           PROVE  \E q \in Requests : Restores(q)'
    PROVE  SyncInv'
  <1>1. OnlySearches' => OnlySearches
    BY DEF OnlySearches, Asked
  <1>2. \A r \in Requests : pc'[r] = "putBack" => Asked(r) \in {"nofilters", "badfilters"}
    BY DEF SyncInv
  <1>3. QED
    BY <1>1, <1>2, SyncKept

\* The state loop takes a message ...
LEMMA TakesKeepSync ==
    ASSUME IInv, SyncInv, plan' = plan, TakesWrite \/ TakesForward \/ TakesLen \/ SendsRequest
    PROVE  SyncInv'
  <1> USE DEF searchVars, viewVars, chanVars, taskVars, fileVars
  <1>1. /\ TypeOK /\ reply \in [Requests -> Replies] /\ api \in Seq(Messages)
    BY DEF IInv, TypeOK
  <1>2. CASE TakesWrite \/ TakesForward
    <2>1. /\ stateLoop = "select" /\ stateLoop' = "busy" /\ serving = Nothing
          /\ answer = NoReply /\ answer' = NoReply
          /\ pc' = pc /\ reply' = reply
      BY <1>2 DEF TakesWrite, TakesForward, Takes, IInv, ServiceInv
    <2>2. NoReply # No /\ ~IsAnswered(Nothing) /\ Nothing.cmd # "Get"
      BY MessageParts DEF NoReply, No, Reply, Nothing, IsAnswered
    <2>3. \A r \in Requests : Restores(r) => Restores(r)'
      BY <2>1, <2>2 DEF Restores, Borrows
    <2>4. UNCHANGED <<matches, indexed>>
      BY <1>2 DEF TakesWrite, TakesForward
    <2>5. QED
      BY <2>1, <2>3, <2>4, LoopKeepsSync
  <1>3. CASE TakesLen
    <2>1. /\ api # <<>> /\ stateLoop = "select" /\ UNCHANGED <<pc, stateLoop, serving, answer, matches, indexed>>
          /\ Head(api).cmd = "Len" /\ Head(api) \in Messages
      BY <1>1, <1>3, HeadMessage DEF TakesLen, Takes, loopVars
    <2>2. Head(api).from \in Requests /\ pc[Head(api).from] = "len"
      BY <2>1, HeadOfLine, ConstantsAssumption DEF IInv, Sound, Awaits, Messages
    <2>3. \A q \in Requests : q # Head(api).from => reply'[q] = reply[q]
      BY <1>1, <1>3 DEF TakesLen
    <2>4. serving.cmd # "Get"
      BY <2>1, MessageParts DEF IInv, ServiceInv, Nothing
    <2>5. \A q \in Requests : Restores(q) => Restores(q)'
      BY <2>1, <2>2, <2>3, <2>4 DEF Restores, Borrows
    <2>6. QED
      BY <2>1, <2>5, LoopKeepsSync DEF SyncInv
  <1>4. CASE SendsRequest
    <2>1. UNCHANGED <<pc, reply, stateLoop, serving, answer, matches, indexed>>
      BY <1>4 DEF SendsRequest
    <2>2. \A r \in Requests : Restores(r) => Restores(r)'
      BY <2>1 DEF Restores, Borrows
    <2>3. QED
      BY <2>1, <2>2, LoopKeepsSync DEF SyncInv
  <1>5. QED
    BY <1>2, <1>3, <1>4

\* ... or is through with one it has not answered, or has lent the holder.
LEMMA ServedKeepsSync ==
    ASSUME IInv, SyncInv, plan' = plan, WriteServed \/ SetForwarded \/ GetServed
    PROVE  SyncInv'
  <1> USE DEF searchVars, viewVars, chanVars, taskVars, fileVars
  <1>1. /\ TypeOK /\ reply \in [Requests -> Replies] /\ serving \in Messages
        /\ stateLoop = "busy" /\ serving' = Nothing /\ answer' = NoReply
        /\ UNCHANGED <<pc, matches, indexed>>
    BY DEF WriteServed, SetForwarded, GetServed, Sent, Returns, IInv, TypeOK
  <1>2. ~IsAnswered(Nothing) /\ Nothing.cmd # "Get"
    BY MessageParts DEF Nothing, IsAnswered
  <1>3. CASE WriteServed \/ SetForwarded
    <2>1. serving.cmd # "Get" /\ reply' = reply
      BY <1>3 DEF WriteServed, SetForwarded, Sent
    <2>2. \A r \in Requests : Restores(r) => Restores(r)'
      BY <1>1, <1>2, <2>1 DEF Restores, Borrows
    <2>3. QED
      BY <1>1, <1>2, <2>2, LoopKeepsSync
  <1>4. CASE GetServed
    <2>1. serving.cmd = "Get" /\ IsAnswered(serving)
      BY <1>4 DEF GetServed, Sent, IsAnswered
    <2>2. serving.from \in Requests /\ pc[serving.from] = "get"
      BY <1>1, <2>1, ConstantsAssumption DEF IInv, ServiceInv, Sound, Awaits, Messages
    <2>3. reply' = [reply EXCEPT ![serving.from] = answer]
      BY <1>4 DEF GetServed
    <2>4. ASSUME NEW r \in Requests, Restores(r), r = serving.from PROVE Restores(r)'
      <3>1. answer.status = "ok" \/ reply[r].status = "ok"
        BY <2>2, <2>4 DEF Restores, Borrows
      <3>2. reply[r] = NoReply
        BY <2>1, <2>2, <2>4, ConstantsAssumption DEF IInv, ServiceInv, Sound
      <3>3. reply'[r].status = "ok" /\ pc'[r] = "get"
        BY <1>1, <2>2, <2>3, <2>4, <3>1, <3>2 DEF NoReply, Reply
      <3>4. QED
        BY <3>3 DEF Restores, Borrows
    <2>5. ASSUME NEW r \in Requests, Restores(r), r # serving.from PROVE Restores(r)'
      BY <1>1, <1>2, <2>3, <2>5 DEF Restores, Borrows
    <2>6. \A r \in Requests : Restores(r) => Restores(r)'
      BY <2>4, <2>5
    <2>7. QED
      BY <1>1, <1>2, <2>6, LoopKeepsSync
  <1>5. QED
    BY <1>3, <1>4

\* The drop of a search clears both maps, unless the holder is lent.
LEMMA DropKeepsSync ==
    ASSUME IInv, SyncInv, plan' = plan, DropServed
    PROVE  SyncInv'
  <1> USE DEF searchVars, viewVars, chanVars, taskVars, fileVars
  <1>1. /\ TypeOK /\ reply \in [Requests -> Replies] /\ serving \in Messages
        /\ stateLoop = "busy" /\ serving' = Nothing /\ answer' = NoReply
        /\ pc' = pc /\ matches \in [Kinds -> Seq(Matches)]
        /\ IsAnswered(serving) /\ serving.cmd = "Drop" /\ answer # NoReply
        /\ reply' = [reply EXCEPT ![serving.from] = answer]
    BY DEF DropServed, Sent, Returns, IInv, TypeOK, IsAnswered
  <1>2. ~IsAnswered(Nothing) /\ Nothing.cmd # "Get"
    BY MessageParts DEF Nothing, IsAnswered
  <1>3. answer \in {Yes, No} /\ Yes # No
    BY <1>1 DEF SyncInv, Yes, No, Reply
  <1>4. CASE answer = Yes
    <2>1. indexed' = {} /\ matches'["regular"] = <<>>
      BY <1>1, <1>4 DEF DropServed, Kinds
    <2>2. Synced'
      BY <2>1 DEF Synced, RowsOf
    <2>3. \A r \in Requests : pc'[r] = "putBack" => Asked(r)' \in {"nofilters", "badfilters"}
      BY <1>1 DEF SyncInv, Asked
    <2>4. QED
      BY <1>1, <1>2, <2>1, <2>2, <2>3 DEF SyncInv
  <1>5. CASE answer = No
    <2>1. UNCHANGED <<matches, indexed>>
      BY <1>3, <1>5 DEF DropServed
    <2>2. serving.from \in Requests /\ pc[serving.from] \in {"clearing", "dropping", "failDrop", "cancelDrop", "tick"}
      BY <1>1, ConstantsAssumption DEF IInv, ServiceInv, Sound, Awaits, Messages
    <2>3. ASSUME NEW r \in Requests, Restores(r) PROVE Restores(r)'
      <3>1. CASE r = serving.from
        <4>1. pc[r] = "tick"
          BY <1>1, <1>5, <2>2, <2>3, <3>1 DEF Restores, Borrows
        <4>2. QED
          BY <1>1, <4>1 DEF Restores
      <3>2. CASE r # serving.from
        BY <1>1, <1>2, <2>3, <3>2 DEF Restores, Borrows
      <3>3. QED
        BY <3>1, <3>2
    <2>4. QED
      BY <1>1, <1>2, <2>1, <2>3, LoopKeepsSync
  <1>6. QED
    BY <1>3, <1>4, <1>5

\* The drop of a search for values is about the other map.
LEMMA ValuesKeepSync ==
    ASSUME IInv, SyncInv, plan' = plan, ValuesDropped
    PROVE  SyncInv'
  <1> USE DEF searchVars, viewVars, chanVars, taskVars, fileVars
  <1>1. /\ stateLoop = "busy" /\ serving' = Nothing /\ answer' = NoReply /\ serving.cmd = "Drop"
        /\ pc' = pc /\ reply' = reply /\ indexed' = indexed
        /\ matches'["regular"] = matches["regular"]
    BY DEF ValuesDropped, Sent, Returns, IInv, TypeOK, Kinds
  <1>2. ~IsAnswered(Nothing) /\ Nothing.cmd # "Get"
    BY MessageParts DEF Nothing, IsAnswered
  <1>3. \A r \in Requests : Restores(r) => Restores(r)'
    BY <1>1, <1>2 DEF Restores, Borrows
  <1>4. (Synced' <=> Synced) /\ (OnlySearches' <=> OnlySearches)
    BY <1>1 DEF Synced, OnlySearches, RowsOf, Asked
  <1>5. QED
    BY <1>1, <1>2, <1>3, <1>4 DEF SyncInv, Asked

\* The results of a search set both maps, a tick clears one of them.
LEMMA MatchesKeepSync ==
    ASSUME IInv, RowInv, SyncInv, plan' = plan, TakesMatches \/ TakesClear \/ ClearUnheard
    PROVE  SyncInv'
  <1> USE DEF searchVars, viewVars, chanVars, taskVars, fileVars
  <1>1. /\ TypeOK /\ api \in Seq(Messages) /\ api # <<>> /\ Head(api) \in Messages
        /\ reply \in [Requests -> Replies] /\ matches \in [Kinds -> Seq(Matches)]
        /\ stateLoop = "select" /\ pc' = pc /\ plan.kind \in Kinds /\ "regular" \in Kinds
        /\ Sound(Head(api)) /\ serving = Nothing /\ serving' = serving /\ answer' = answer
    BY HeadMessage, HeadOfLine, KindOfPlan
       DEF TakesMatches, TakesClear, ClearUnheard, Takes, IInv, TypeOK, loopVars, ServiceInv, Kinds
  <1>2. ~IsAnswered(Nothing) /\ Nothing.cmd # "Get"
    BY MessageParts DEF Nothing, IsAnswered
  <1>3. \A r \in Requests : pc'[r] = "putBack" => Asked(r)' \in {"nofilters", "badfilters"}
    BY <1>1 DEF SyncInv, Asked
  <1>4. CASE TakesMatches
    <2>1. Head(api).cmd = "Matches" /\ Head(api).from # None /\ Head(api).kind = plan.kind
      BY <1>1, <1>4 DEF TakesMatches, Takes, Sound
    <2>2. CASE plan.kind = "regular"
      <3>1. indexed' = RowsOf(matches'["regular"])
        BY <1>1, <1>4, <2>1, <2>2 DEF TakesMatches
      <3>2. Synced'
        BY <3>1 DEF Synced, RowsOf
      <3>3. QED
        BY <1>1, <1>2, <1>3, <2>2, <3>2 DEF SyncInv
    <2>3. CASE plan.kind # "regular"
      <3>1. indexed' = indexed /\ matches'["regular"] = matches["regular"]
        BY <1>1, <1>4, <2>1, <2>3 DEF TakesMatches
      <3>2. indexed = {} /\ matches["regular"] = <<>>
        BY <1>1, <2>3 DEF SyncInv, RowInv, DistinctInv
      <3>3. Synced'
        BY <3>1, <3>2 DEF Synced, RowsOf
      <3>4. QED
        BY <1>1, <1>2, <1>3, <2>3, <3>1, <3>2, <3>3 DEF SyncInv
    <2>4. QED
      BY <2>2, <2>3
  <1>5. CASE TakesClear
    <2>1. PICK r \in Requests : r = Head(api).from /\ pc[r] = "tick"
      BY <1>1, <1>5 DEF TakesClear, Takes, Sound, Awaits, Messages
    <2>2. Restores(r)'
      BY <1>1, <2>1 DEF Restores
    <2>3. indexed' = indexed
      BY <1>5 DEF TakesClear
    <2>4. QED
      BY <1>1, <1>2, <1>3, <2>1, <2>2, <2>3 DEF SyncInv
  <1>6. CASE ClearUnheard
    <2>1. stateLoop' = "failed" /\ indexed' = indexed
      BY <1>6 DEF ClearUnheard
    <2>2. QED
      BY <1>1, <1>2, <1>3, <2>1 DEF SyncInv
  <1>7. QED
    BY <1>4, <1>5, <1>6

\* An extension of the search is added to both.
LEMMA ResponseKeepsSync ==
    ASSUME IInv, RowInv, SyncInv, plan' = plan, TakesResponse
    PROVE  SyncInv'
  <1> USE DEF searchVars, viewVars, loopVars, taskVars, fileVars
  <1> DEFINE R == [kind : Kinds, matches : Seq(Matches)]
             hd == Head(responses)
             a == matches["regular"]
             b == hd.matches
  <1>1. /\ responses \in Seq(R) /\ responses # <<>> /\ pending \in Seq(R)
        /\ matches \in [Kinds -> Seq(Matches)] /\ plan.kind \in Kinds /\ "regular" \in Kinds
        /\ UNCHANGED <<pc, reply, stateLoop, serving, answer>>
    BY KindOfPlan DEF TakesResponse, IInv, TypeOK, Kinds
  <1>2. hd \in R
    BY <1>1, HeadMessage
  <1>3. hd.kind = plan.kind
    <2>1. 1 \in 1..Len(responses) /\ hd = responses[1] /\ Len(responses) \in Nat
      BY <1>1, HeadMessage, LenProperties
    <2>2. Len(pending) \in Nat
      BY <1>1, LenProperties
    <2> HIDE DEF R, hd
    <2>3. /\ Queue \in Seq(R) /\ Len(Queue) = Len(responses) + Len(pending)
          /\ \A i \in 1..Len(responses) + Len(pending) :
               Queue[i] = IF i <= Len(responses) THEN responses[i]
                                                 ELSE pending[i - Len(responses)]
      BY <1>1, ConcatProperties DEF Queue
    <2>4. 1 \in DOMAIN Queue /\ Queue[1] = hd
      BY <2>1, <2>2, <2>3, LenProperties
    <2>5. QED
      BY <2>4 DEF RowInv, DistinctInv
  <1>4. \A r \in Requests : Restores(r)' <=> Restores(r)
    BY <1>1 DEF Restores, Borrows
  <1>5. /\ OnlySearches' <=> OnlySearches
        /\ \A r \in Requests : pc'[r] = "putBack" => Asked(r)' \in {"nofilters", "badfilters"}
    BY <1>1 DEF SyncInv, OnlySearches, Asked
  <1>6. CASE plan.kind = "regular"
    <2>1. matches'["regular"] = a \o b /\ indexed' = indexed \cup RowsOf(b)
      BY <1>1, <1>3, <1>6 DEF TakesResponse
    <2>2. RowsOf(a \o b) = RowsOf(a) \cup RowsOf(b)
      <3>1. a \in Seq(Matches) /\ b \in Seq(Matches)
        BY <1>1, <1>2
      <3> HIDE DEF a, b
      <3>2. \A e : Has(a \o b, e) <=> Has(a, e) \/ Has(b, e)
        BY <3>1, HasConcat
      <3>3. \A s, n : n \in RowsOf(s) <=> \E e : Has(s, e) /\ e.row = n
        BY DEF RowsOf, Has
      <3>4. \A n : n \in RowsOf(a \o b) <=> n \in RowsOf(a) \cup RowsOf(b)
        BY <3>2, <3>3
      <3>5. QED
        BY <3>4
    <2>3. Synced => Synced'
      <3>1. RowsOf(matches["regular"])' = RowsOf(a \o b)
        BY <2>1 DEF RowsOf
      <3>2. QED
        BY <2>1, <2>2, <3>1 DEF Synced
    <2>4. QED
      BY <1>1, <1>4, <1>5, <1>6, <2>3 DEF SyncInv
  <1>7. CASE plan.kind # "regular"
    <2>1. indexed' = indexed /\ matches'["regular"] = matches["regular"]
      BY <1>1, <1>3, <1>7 DEF TakesResponse
    <2>2. Synced' <=> Synced
      BY <2>1 DEF Synced, RowsOf
    <2>3. QED
      BY <1>1, <1>4, <1>5, <1>7, <2>1, <2>2 DEF SyncInv
  <1>8. QED
    BY <1>6, <1>7
\* The searchers lend the holder or refuse to drop it: then somebody has it.
LEMMA SearchersKeepSync ==
    ASSUME IInv, RowInv, SyncInv, plan' = plan, Searchers
    PROVE  SyncInv'
  <1> USE DEF loopVars, viewVars, searchVars, taskVars, fileVars
  <1> DEFINE m == Head(requests)
  <1>1. /\ TypeOK /\ requests \in Seq(Messages) /\ reply \in [Requests -> Replies]
        /\ serving \in Messages
        /\ UNCHANGED <<pc, matches, indexed, stateLoop, serving>>
    BY DEF Searchers, SearchesOn, SkipsUpdate, Responds, LendsHolder, TakesHolderBack,
           DropsHolder, IInv, TypeOK
  <1>2. ASSUME NEW cmd, Serves(cmd)
        PROVE  /\ m \in Messages /\ m.cmd = cmd /\ Sound(m)
               /\ IsAnswered(m) => m = serving /\ answer = NoReply
    <2>1. requests # <<>> /\ m.cmd = cmd
      BY <1>2 DEF Serves
    <2>2. m \in Messages /\ 1 \in DOMAIN requests /\ m = requests[1] /\ Sound(m)
      BY <1>1, <2>1, HeadMessage, HeadOfLine DEF IInv
    <2>3. QED
      BY <2>1, <2>2 DEF IInv, ServiceInv
  <1>3. CASE SearchesOn \/ SkipsUpdate \/ Responds
    <2>1. reply' = reply /\ answer' = answer
      BY <1>3 DEF SearchesOn, SkipsUpdate, Responds
    <2>2. \A r \in Requests : Restores(r) => Restores(r)'
      BY <1>1, <2>1 DEF Restores, Borrows
    <2>3. QED
      BY <1>1, <2>1, <2>2, LoopKeepsSync DEF SyncInv
  <1>4. CASE LendsHolder
    <2>1. /\ m.cmd = "Get" /\ m = serving /\ answer = NoReply /\ IsAnswered(serving) /\ Sound(serving)
          /\ reply' = reply
      BY <1>2, <1>4 DEF LendsHolder, IsAnswered
    <2>2. \A r \in Requests : serving.from = r => pc[r] = "get"
      BY <2>1, ConstantsAssumption DEF Sound, Awaits
    <2>3. NoReply.status # "ok"
      BY DEF NoReply, Reply
    <2>4. \A r \in Requests : Restores(r) => Restores(r)'
      BY <1>1, <2>1, <2>2, <2>3 DEF Restores, Borrows
    <2>5. QED
      BY <1>1, <2>1, <2>4, LoopKeepsSync
  <1>5. CASE TakesHolderBack
    <2>1. m.cmd = "Set" /\ Sound(m) /\ m \in Messages
      BY <1>2, <1>5 DEF TakesHolderBack
    <2>2. /\ m.from \in Requests
          /\ pc[m.from] \in {"putBack", "put", "fail", "cancel"}
      BY <2>1, ConstantsAssumption DEF Sound, Awaits, Messages
    <2>3. answer' = answer /\ \A q \in Requests : q # m.from => reply'[q] = reply[q]
      BY <1>1, <1>5 DEF TakesHolderBack, Answers
    <2>4. ASSUME OnlySearches, NEW r \in Requests, Restores(r) PROVE Restores(r)'
      <3>1. CASE r = m.from
        <4>1. pc[r] # "putBack"
          BY <2>4 DEF SyncInv, OnlySearches
        <4>2. QED
          BY <1>1, <2>2, <3>1, <4>1 DEF Restores
      <3>2. CASE r # m.from
        BY <1>1, <2>3, <2>4, <3>2 DEF Restores, Borrows
      <3>3. QED
        BY <3>1, <3>2
    <2>5. QED
      BY <1>1, <2>3, <2>4, LoopKeepsSync DEF SyncInv
  <1>6. CASE DropsHolder
    <2>1. m.cmd = "Drop" /\ Sound(m) /\ m \in Messages
      BY <1>2, <1>6 DEF DropsHolder
    <2>2. CASE m.kind = "regular"
      <3>1. m = serving /\ answer = NoReply /\ IsAnswered(serving) /\ m.from # None
        BY <1>2, <1>6, <2>1, <2>2 DEF DropsHolder, IsAnswered, Sound
      <3>2. /\ reply' = reply /\ plan.kind = "regular"
            /\ answer' = IF slot["regular"] = "InUse" THEN No ELSE Yes
        BY <1>6, <2>1, <2>2, <3>1 DEF DropsHolder, Sound
      <3>3. \A q \in Requests : Borrows(q) => Borrows(q)'
        <4>1. NoReply.status # "ok"
          BY DEF NoReply, Reply
        <4>2. QED
          BY <1>1, <3>1, <3>2, <4>1 DEF Borrows
      <3>4. ASSUME stateLoop # "failed", NEW r \in Requests, Restores(r)
            PROVE  \E q \in Requests : Restores(q)'
        <4>1. CASE slot["regular"] = "InUse"
          <5>1. PICK q \in Requests : Borrows(q)
            BY <3>2, <3>4, <4>1 DEF IInv, OwnerInv
          <5>2. QED
            BY <3>3, <5>1 DEF Restores
        <4>2. CASE slot["regular"] # "InUse"
          <5>1. answer' # No
            BY <3>2, <4>2 DEF Yes, No, Reply
          <5>2. Restores(r)'
            BY <1>1, <3>2, <3>3, <3>4, <5>1 DEF Restores
          <5>3. QED
            BY <5>2
        <4>3. QED
          BY <4>1, <4>2
      <3>5. QED
        BY <1>1, <3>2, <3>4, LoopKeepsSync
    <2>3. CASE m.kind # "regular"
      <3>1. answer' = answer /\ \A q \in Requests : q # m.from => reply'[q] = reply[q]
        BY <1>1, <1>6, <2>3 DEF DropsHolder, Answers
      <3>2. m.from # None => plan.kind # "regular"
        BY <2>1, <2>3 DEF Sound
      <3>3. CASE m.from = None
        <4>1. \A q \in Requests : reply'[q] = reply[q]
          BY <3>1, <3>3, ConstantsAssumption
        <4>2. \A q \in Requests : Restores(q) => Restores(q)'
          BY <1>1, <3>1, <4>1 DEF Restores, Borrows
        <4>3. QED
          BY <1>1, <3>1, <4>2, LoopKeepsSync DEF SyncInv
      <3>4. CASE plan.kind # "regular"
        <4>1. Synced'
          BY <1>1, <3>4 DEF Synced, RowsOf, SyncInv, RowInv, DistinctInv, Kinds
        <4>2. \A r \in Requests : pc'[r] = "putBack" => Asked(r)' \in {"nofilters", "badfilters"}
          BY <1>1 DEF SyncInv, Asked
        <4>3. QED
          BY <1>1, <3>1, <3>4, <4>1, <4>2 DEF SyncInv, IsAnswered
      <3>5. QED
        BY <3>2, <3>3, <3>4
    <2>4. QED
      BY <2>2, <2>3
  <1>7. QED
    BY <1>3, <1>4, <1>5, <1>6 DEF Searchers
LEMMA InitSync == Init => SyncInv
  <1> SUFFICES ASSUME Init PROVE SyncInv
    OBVIOUS
  <1>1. Synced
    BY DEF Init, Synced, RowsOf, Kinds
  <1>2. ~IsAnswered(serving)
    BY MessageParts DEF Init, Nothing, IsAnswered
  <1>3. QED
    BY <1>1, <1>2 DEF Init, SyncInv

LEMMA NextSync == IInv /\ RowInv /\ SyncInv /\ [Next]_<<plan, vars>> => SyncInv'
  <1> SUFFICES ASSUME IInv, RowInv, SyncInv, [Next]_<<plan, vars>> PROVE SyncInv'
    OBVIOUS
  <1> USE DEF taskVars, chanVars, loopVars, searchVars, viewVars, fileVars, Elsewhere
  <1>1. ASSUME UNCHANGED <<plan, pc, reply, matches, indexed, stateLoop, serving, answer>>
        PROVE  SyncInv'
    <2>1. \A r \in Requests : Restores(r) => Restores(r)'
      BY <1>1 DEF Restores, Borrows
    <2>2. QED
      BY <1>1, <2>1, LoopKeepsSync DEF SyncInv
  <1>2. CASE UNCHANGED <<plan, vars>>
    BY <1>1, <1>2 DEF vars
  <1>3. CASE \E r \in Requests : Task(r) /\ plan' = plan
    BY <1>3, TaskKeepsSync
  <1>4. CASE \E r \in Requests : (BackgroundEnds(r) \/ Cancelled(r)) /\ plan' = plan
    BY <1>1, <1>4 DEF BackgroundEnds, Cancelled
  <1>5. CASE Produces /\ plan' = plan
    BY <1>1, <1>5 DEF Produces
  <1>6. CASE State /\ plan' = plan
    BY <1>6, TakesKeepSync, ServedKeepsSync, DropKeepsSync, ValuesKeepSync, MatchesKeepSync,
       ResponseKeepsSync DEF State
  <1>7. CASE Searchers /\ plan' = plan
    BY <1>7, SearchersKeepSync
  <1>8. QED
    BY <1>2, <1>3, <1>4, <1>5, <1>6, <1>7 DEF Next

\* Once nothing is under way the indexed map holds the rows of the search map,
\* as long as nothing but searches and drops has been asked for: the last one
\* that has had the holder has set both or cleared both.
THEOREM IndexFollows == Spec => []IndexFollowsMap
  <1>1. IInv /\ SyncInv => IndexFollowsMap
    <2> SUFFICES ASSUME IInv, SyncInv, Quiet, OnlySearches PROVE Synced
      BY DEF IndexFollowsMap, OnlySearches, Synced
    <2>1. serving = Nothing /\ Nothing.cmd # "Get"
      BY MessageParts DEF Quiet, IInv, ServiceInv, Nothing
    <2>2. \A r \in Requests : ~Restores(r)
      BY <2>1 DEF Quiet, Restores, Borrows
    <2>3. QED
      BY <2>2 DEF SyncInv, Quiet
  <1>2. Spec => Init /\ [][Next]_<<plan, vars>> /\ []IInv
    BY Invariant, PTL DEF Spec
  <1>3. QED
    BY <1>1, <1>2, InitRows, NextRows, InitSync, NextSync, PTL
=============================================================================
