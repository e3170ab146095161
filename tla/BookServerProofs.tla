-------------------------- MODULE BookServerProofs --------------------------
(***************************************************************************)
(* Theorems about BookServer: whatever the capacity, the books and the     *)
(* requests, client and server never take one field for another, and no    *)
(* reply contradicts what the client has been told before.                 *)
(***************************************************************************)
EXTENDS BookServer, SequenceTheorems, FiniteSetTheorems, TLAPS

USE DEF INSERT, DELETE, DISPLAY, SEARCH, EXIT, INVALID

Anything == Typed \cup Accession \cup Term \cup Nat
Names == {"choice", "book", "acc", "type", "term"}

SequencesOK ==
    /\ wire \in Seq([field : Names, value : Anything])
    /\ got \in Seq(Anything)
    /\ sent \in Seq(Anything)
    /\ asked \in Operations \cup {0}
    /\ replies = <<>> \/ replies = <<replies[1]>>

(* The k-th message on the wire is the n-th field of the request under way. *)
IsField(k, n) ==
    /\ wire[k].field = Fields(asked)[n]
    /\ wire[k].value \in Values(wire[k].field)

(* What is on the wire at each place of the server.                        *)
ChoiceOK ==
    server = "choice" /\ wire # <<>> =>
        /\ wire[1].field = "choice" /\ wire[1].value = asked /\ asked \in Operations
        /\ Len(wire) = 1 + Len(sent)
        /\ \A k \in 2..Len(wire) : IsField(k, k - 1)
        /\ replies = <<>>

ReadingOK ==
    ReadingField =>
        /\ choice = asked /\ Len(got) < Len(Fields(asked))
        /\ server = Fields(asked)[Len(got) + 1]
        /\ wire # <<>> \/ client # "done" => Len(got) + Len(wire) = Len(sent)
        /\ \A k \in 1..Len(wire) : IsField(k, Len(got) + k)
        /\ replies = <<>>

ServeOK ==
    server = "serve" =>
        /\ choice = asked /\ asked \in {INSERT, DELETE, DISPLAY, SEARCH}
        /\ wire = <<>> /\ replies = <<>>
        /\ Len(got) = Len(Fields(asked))
        /\ client \in {"waiting", "done"}

ExitedOK == server = "exited" => wire = <<>> /\ client = "done"

(* Where the client stands.                                                *)
ClientOK ==
    /\ Len(sent) <= Len(Fields(asked))
    /\ client = "menu" => wire = <<>> /\ server = "choice" /\ replies = <<>>
    /\ client = "typing" => /\ Len(sent) < Len(Fields(asked))
                            /\ server = "choice" => wire # <<>>
    /\ client = "waiting" => Len(sent) = Len(Fields(asked)) /\ asked \in Operations \ {EXIT}

GotOK ==
    /\ Len(got) <= Len(Fields(choice))
    /\ \A k \in 1..Len(got) : got[k] \in Values(Fields(choice)[k])

Protocol == ChoiceOK /\ ReadingOK /\ ServeOK /\ ExitedOK /\ ClientOK /\ GotOK

Sizes ==
    /\ Len(database) <= MAX_BOOKS
    /\ database \in Seq([book : Typed \cup {Initially[k] : k \in DOMAIN Initially},
                         is_deleted : BOOLEAN])
    /\ server \in {"choice", "book", "acc", "type", "term", "serve", "exited"}
    /\ choice \in Operations \cup {0}
    /\ client \in {"menu", "typing", "waiting", "done"}
    /\ requests \in 0..MaxRequests

IInv == SequencesOK /\ Sizes /\ Protocol

-----------------------------------------------------------------------------
(* The fields of each operation.                                           *)
LEMMA FieldsOf ==
    /\ Fields(INSERT) = <<"book">> /\ Fields(DELETE) = <<"acc">>
    /\ Fields(SEARCH) = <<"type", "term">>
    /\ Fields(DISPLAY) = <<>> /\ Fields(EXIT) = <<>> /\ Fields(INVALID) = <<>>
    /\ Fields(0) = <<>>
BY DEF Fields

LEMMA FieldNames ==
    ASSUME NEW op \in Operations \cup {0}
    PROVE  /\ Len(Fields(op)) \in 0..2
           /\ Len(Fields(op)) > 0 => op \in {INSERT, DELETE, SEARCH}
           /\ \A k \in 1..Len(Fields(op)) : Fields(op)[k] \in {"book", "acc", "type", "term"}
<1>1. op \in {INSERT, DELETE, DISPLAY, SEARCH, EXIT, INVALID, 0}
  BY DEF Operations
<1> QED
  BY <1>1, FieldsOf

LEMMA ValuesTyped ==
    /\ \A f \in {"book", "acc", "type", "term"} : \A v \in Values(f) : v \in Anything
    /\ \A op \in Operations : op \in Anything
BY BooksAssumption DEF Values, Anything, Operations

LEMMA HeadAndTail ==
    ASSUME NEW S, NEW q \in Seq(S), q # <<>>
    PROVE  /\ Head(q) \in S /\ Head(q) = q[1] /\ 1 \in 1..Len(q) /\ Len(q) \in Nat
           /\ Tail(q) \in Seq(S) /\ Len(Tail(q)) = Len(q) - 1
           /\ \A k \in 1..Len(Tail(q)) :
                 Tail(q)[k] = q[k + 1] /\ k + 1 \in 2..Len(q)
           /\ Tail(q) = <<>> <=> Len(q) = 1
<1>1. Len(q) \in Nat /\ Len(q) # 0
  BY EmptySeq, LenProperties
<1>2. Tail(q) \in Seq(S) /\ Len(Tail(q)) = Len(q) - 1
  BY HeadTailProperties
<1>3. Tail(q) = <<>> <=> Len(q) = 1
  <2>1. Len(<<>>) = 0 /\ \A t \in Seq(S) : t # <<>> => Len(t) \in Nat \ {0}
    BY EmptySeq
  <2>2. \A t \in Seq(S) : Len(t) = 0 <=> t = <<>>
    BY <2>1
  <2>3. Len(Tail(q)) = 0 <=> Tail(q) = <<>>
    BY <1>2, <2>2, Zenon
  <2>4. Len(Tail(q)) = 0 <=> Len(q) = 1
    BY <1>1, <1>2
  <2> QED
    BY <2>3, <2>4, Zenon
<1>4. \A k \in 1..Len(Tail(q)) : Tail(q)[k] = q[k + 1] /\ k + 1 \in 2..Len(q)
  BY <1>1, <1>2
<1> QED
  BY <1>1, <1>2, <1>3, <1>4, HeadTailProperties

LEMMA Appended ==
    ASSUME NEW S, NEW q \in Seq(S), NEW e \in S
    PROVE  /\ Append(q, e) \in Seq(S) /\ Len(Append(q, e)) = Len(q) + 1
           /\ Len(q) \in Nat /\ Append(q, e) # <<>>
           /\ \A k \in 1..Len(q) : Append(q, e)[k] = q[k]
           /\ Append(q, e)[Len(q) + 1] = e
OBVIOUS

-----------------------------------------------------------------------------
(* The client's steps.                                                     *)
Msg == [field : Names, value : Anything]

LEMMA ChooseKeeps ==
    ASSUME IInv, NEW op \in Operations, Choose(op)
    PROVE  SequencesOK' /\ Sizes' /\ Protocol'
<1> DEFINE m == Message("choice", op)
<1>1. wire = <<>> /\ server = "choice" /\ replies = <<>>
  BY DEF Choose, IInv, Protocol, ClientOK
<1>2. /\ asked' = op /\ sent' = <<>> /\ wire' = Append(wire, m)
      /\ UNCHANGED <<database, server, choice, got, replies>>
  BY DEF Choose, serverVars
<1>3. m \in Msg /\ m.field = "choice" /\ m.value = op
  BY ValuesTyped DEF Message, Msg, Names
<1>4. wire' \in Seq(Msg) /\ Len(wire') = 1 /\ wire'[1] = m /\ wire' # <<>>
  <2>1. wire \in Seq(Msg) /\ Len(wire) = 0
    BY <1>1
  <2> HIDE DEF m
  <2> QED
    BY <1>2, <1>3, <2>1, Appended
<1>5. Len(sent') = 0 /\ sent' \in Seq(Anything)
  BY <1>2
<1>6. Len(Fields(op)) \in 0..2 /\ (Len(Fields(op)) = 0 <=> Fields(op) = <<>>)
  BY FieldNames, FieldsOf DEF Operations
<1>7. /\ client' \in {"typing", "waiting", "done"}
      /\ client' = "waiting" => Fields(op) = <<>> /\ op # EXIT
      /\ client' = "typing" => Fields(op) # <<>>
  BY DEF Choose
<1>8. SequencesOK'
  BY <1>1, <1>2, <1>4, <1>5 DEF IInv, SequencesOK, Msg
<1>9. Sizes'
  BY <1>2, <1>7, MaxRequestsAssumption DEF IInv, Sizes, Choose
<1>10. ChoiceOK' /\ ReadingOK' /\ ServeOK' /\ ExitedOK'
  <2>1. server' = "choice" /\ replies' = <<>>
    BY <1>1, <1>2
  <2>2. wire'[1].field = "choice" /\ wire'[1].value = asked'
    BY <1>2, <1>3, <1>4
  <2>3. ChoiceOK'
    BY <1>2, <1>4, <1>5, <2>1, <2>2 DEF ChoiceOK
  <2> QED
    BY <2>1, <2>3 DEF ReadingOK, ReadingField, ServeOK, ExitedOK
<1>11. ClientOK'
  BY <1>2, <1>4, <1>5, <1>6, <1>7 DEF ClientOK
<1>12. GotOK'
  BY <1>2 DEF IInv, Protocol, GotOK
<1> QED
  BY <1>8, <1>9, <1>10, <1>11, <1>12 DEF Protocol

LEMMA WriteFieldKeeps ==
    ASSUME IInv, NEW field \in {"book", "acc", "type", "term"},
           NEW value \in Values(field), WriteField(field, value)
    PROVE  SequencesOK' /\ Sizes' /\ Protocol'
<1> DEFINE m == Message(field, value)
<1>1. /\ client = "typing" /\ field = Fields(asked)[Len(sent) + 1]
      /\ wire' = Append(wire, m) /\ sent' = Append(sent, value)
      /\ client' = IF Len(sent') = Len(Fields(asked)) THEN "waiting" ELSE "typing"
      /\ UNCHANGED <<database, server, choice, got, replies, asked, requests>>
  BY DEF WriteField, serverVars
<1>2. Len(sent) < Len(Fields(asked)) /\ (server = "choice" => wire # <<>>)
  BY <1>1 DEF IInv, Protocol, ClientOK
<1>3. m \in Msg /\ m.field = field /\ m.value = value /\ value \in Anything
  BY ValuesTyped DEF Message, Msg, Names
<1>4. /\ wire' \in Seq(Msg) /\ Len(wire') = Len(wire) + 1 /\ Len(wire) \in Nat /\ wire' # <<>>
      /\ \A k \in 1..Len(wire) : wire'[k] = wire[k]
      /\ wire'[Len(wire) + 1] = m
  <2>1. wire \in Seq(Msg)
    BY DEF IInv, SequencesOK, Msg
  <2> HIDE DEF m
  <2> QED
    BY <1>1, <1>3, <2>1, Appended
<1>5. sent' \in Seq(Anything) /\ Len(sent') = Len(sent) + 1 /\ Len(sent) \in Nat
  <2>1. sent \in Seq(Anything)
    BY DEF IInv, SequencesOK
  <2> QED
    BY <1>1, <1>3, <2>1, Appended
<1>6. Len(Fields(asked)) \in 0..2 /\ asked \in Operations \ {EXIT}
  <2>1. asked \in Operations \cup {0}
    BY DEF IInv, SequencesOK
  <2> QED
    BY <1>2, <1>5, <2>1, FieldNames, FieldsOf DEF Operations
<1> HIDE DEF m
<1>7. SequencesOK'
  BY <1>1, <1>4, <1>5 DEF IInv, SequencesOK, Msg
<1>8. Sizes'
  BY <1>1 DEF IInv, Sizes
<1>9. ChoiceOK'
  <2> SUFFICES ASSUME server = "choice"
               PROVE  /\ wire'[1].field = "choice" /\ wire'[1].value = asked /\ asked \in Operations
                      /\ Len(wire') = 1 + Len(sent')
                      /\ \A k \in 2..Len(wire') : IsField(k, k - 1)'
                      /\ replies' = <<>>
    BY <1>1 DEF ChoiceOK
  <2>1. /\ wire[1].field = "choice" /\ wire[1].value = asked
        /\ Len(wire) = 1 + Len(sent) /\ replies = <<>>
        /\ \A k \in 2..Len(wire) : IsField(k, k - 1)
    BY <1>2 DEF IInv, Protocol, ChoiceOK
  <2>2. wire'[1] = wire[1]
    BY <1>4, <1>5, <2>1
  <2>3. ASSUME NEW k \in 2..Len(wire')
        PROVE  IsField(k, k - 1)'
    <3>1. CASE k \in 2..Len(wire)
      <4>1. wire'[k] = wire[k] /\ IsField(k, k - 1)
        BY <1>4, <2>1, <3>1
      <4> QED
        BY <1>1, <4>1 DEF IsField
    <3>2. CASE k = Len(wire) + 1
      <4>1. wire'[k] = m /\ k - 1 = Len(sent) + 1
        BY <1>4, <1>5, <2>1, <3>2
      <4> QED
        BY <1>1, <1>3, <4>1 DEF IsField
    <3> QED
      BY <1>4, <3>1, <3>2
  <2> QED
    BY <1>1, <1>4, <1>5, <1>6, <2>1, <2>2, <2>3
<1>10. ReadingOK'
  <2> SUFFICES ASSUME ReadingField
               PROVE  /\ choice = asked /\ Len(got) < Len(Fields(asked))
                      /\ server = Fields(asked)[Len(got) + 1]
                      /\ Len(got) + Len(wire') = Len(sent')
                      /\ \A k \in 1..Len(wire') : IsField(k, Len(got) + k)'
                      /\ replies' = <<>>
    BY <1>1 DEF ReadingOK, ReadingField
  <2>1. /\ choice = asked /\ Len(got) < Len(Fields(asked))
        /\ server = Fields(asked)[Len(got) + 1]
        /\ Len(got) + Len(wire) = Len(sent) /\ replies = <<>>
        /\ \A k \in 1..Len(wire) : IsField(k, Len(got) + k)
    BY <1>1 DEF IInv, Protocol, ReadingOK
  <2>2. Len(got) \in Nat
    BY DEF IInv, SequencesOK
  <2>3. ASSUME NEW k \in 1..Len(wire')
        PROVE  IsField(k, Len(got) + k)'
    <3>1. CASE k \in 1..Len(wire)
      <4>1. wire'[k] = wire[k] /\ IsField(k, Len(got) + k)
        BY <1>4, <2>1, <3>1
      <4> QED
        BY <1>1, <4>1 DEF IsField
    <3>2. CASE k = Len(wire) + 1
      <4>1. wire'[k] = m /\ Len(got) + k = Len(sent) + 1
        BY <1>4, <1>5, <2>1, <2>2, <3>2
      <4> QED
        BY <1>1, <1>3, <4>1 DEF IsField
    <3> QED
      BY <1>4, <3>1, <3>2
  <2> QED
    BY <1>1, <1>4, <1>5, <2>1, <2>2, <2>3
<1>11. ServeOK' /\ ExitedOK'
  BY <1>1 DEF IInv, Protocol, ServeOK, ExitedOK
<1>12. ClientOK'
  BY <1>1, <1>2, <1>4, <1>5, <1>6 DEF ClientOK
<1>13. GotOK'
  BY <1>1 DEF IInv, Protocol, GotOK
<1> QED
  BY <1>7, <1>8, <1>9, <1>10, <1>11, <1>12, <1>13 DEF Protocol

(* A reply is read only once nothing else is under way.                    *)
LEMMA ReadReplyKeeps ==
    ASSUME IInv, ReadReply
    PROVE  SequencesOK' /\ Sizes' /\ Protocol'
<1>1. /\ client = "waiting" /\ replies # <<>> /\ client' = "menu" /\ replies' = Tail(replies)
      /\ UNCHANGED <<database, server, choice, got, wire, asked, sent, requests>>
  BY DEF ReadReply, serverVars
<1>2. server = "choice" /\ wire = <<>>
  <2>1. server \in {"choice", "book", "acc", "type", "term", "serve", "exited"}
    BY DEF IInv, Sizes
  <2>2. server # "serve" /\ server # "exited"
    BY <1>1 DEF IInv, Protocol, ServeOK, ExitedOK
  <2>3. ~ReadingField
    BY <1>1 DEF IInv, Protocol, ReadingOK
  <2>4. server = "choice"
    BY <2>1, <2>2, <2>3 DEF ReadingField
  <2> QED
    BY <1>1, <2>4 DEF IInv, Protocol, ChoiceOK
<1>3. replies' = <<>>
  <2>1. replies = <<replies[1]>>
    BY <1>1 DEF IInv, SequencesOK
  <2>2. \A r : Tail(<<r>>) = <<>>
    OBVIOUS
  <2> QED
    BY <1>1, <2>1, <2>2, Zenon
<1>4. SequencesOK'
  BY <1>1, <1>3 DEF IInv, SequencesOK
<1>5. Sizes'
  BY <1>1 DEF IInv, Sizes
<1>6. ChoiceOK' /\ ReadingOK' /\ ServeOK' /\ ExitedOK'
  BY <1>1, <1>2 DEF ChoiceOK, ReadingOK, ReadingField, ServeOK, ExitedOK
<1>7. ClientOK'
  BY <1>1, <1>2, <1>3 DEF IInv, Protocol, ClientOK
<1>8. GotOK'
  BY <1>1 DEF IInv, Protocol, GotOK
<1> QED
  BY <1>4, <1>5, <1>6, <1>7, <1>8 DEF Protocol

LEMMA InterruptKeeps ==
    ASSUME IInv, Interrupt
    PROVE  SequencesOK' /\ Sizes' /\ Protocol'
<1>1. /\ client' = "done"
      /\ UNCHANGED <<database, server, choice, got, wire, replies, asked, sent, requests>>
  BY DEF Interrupt, serverVars
<1>2. SequencesOK' /\ Sizes'
  BY <1>1 DEF IInv, SequencesOK, Sizes
<1>3. ChoiceOK' /\ GotOK'
  BY <1>1 DEF IInv, Protocol, ChoiceOK, IsField, GotOK
<1>4. ReadingOK'
  BY <1>1 DEF IInv, Protocol, ReadingOK, ReadingField, IsField
<1>5. ServeOK' /\ ExitedOK' /\ ClientOK'
  BY <1>1 DEF IInv, Protocol, ServeOK, ExitedOK, ClientOK
<1> QED
  BY <1>2, <1>3, <1>4, <1>5 DEF Protocol

-----------------------------------------------------------------------------
(* The server's steps.                                                     *)
LEMMA DisconnectedKeeps ==
    ASSUME IInv, Disconnected
    PROVE  SequencesOK' /\ Sizes' /\ Protocol'
<1>1. /\ wire = <<>> /\ client = "done" /\ server' = "exited"
      /\ UNCHANGED <<database, choice, got, wire, replies, client, asked, sent, requests>>
  BY DEF Disconnected, clientVars
<1>2. SequencesOK' /\ Sizes'
  BY <1>1 DEF IInv, SequencesOK, Sizes
<1>3. ChoiceOK' /\ ReadingOK' /\ ServeOK' /\ ExitedOK'
  BY <1>1 DEF ChoiceOK, ReadingOK, ReadingField, ServeOK, ExitedOK
<1>4. ClientOK' /\ GotOK'
  BY <1>1 DEF IInv, Protocol, ClientOK, GotOK
<1> QED
  BY <1>2, <1>3, <1>4 DEF Protocol

LEMMA ReadChoiceKeeps ==
    ASSUME IInv, ReadChoice
    PROVE  SequencesOK' /\ Sizes' /\ Protocol'
<1>1. /\ server = "choice" /\ wire # <<>> /\ wire' = Tail(wire) /\ got' = <<>>
      /\ choice' = Head(wire).value
      /\ server' = CASE choice' = EXIT -> "exited"
                     [] choice' = INVALID -> "choice"
                     [] choice' \notin {EXIT, INVALID} -> Awaiting(choice', 0)
      /\ UNCHANGED <<database, replies, client, asked, sent, requests>>
  BY DEF ReadChoice, clientVars
<1>2. /\ wire[1].value = asked /\ asked \in Operations
      /\ Len(wire) = 1 + Len(sent) /\ replies = <<>>
      /\ \A k \in 2..Len(wire) : IsField(k, k - 1)
  BY <1>1 DEF IInv, Protocol, ChoiceOK
<1>3. /\ Head(wire) = wire[1] /\ wire' \in Seq(Msg) /\ Len(wire') = Len(wire) - 1
      /\ \A k \in 1..Len(wire') : wire'[k] = wire[k + 1] /\ k + 1 \in 2..Len(wire)
      /\ wire' = <<>> <=> Len(wire) = 1
  <2>1. wire \in Seq(Msg)
    BY DEF IInv, SequencesOK, Msg
  <2> QED
    BY <1>1, <2>1, HeadAndTail
<1>4. choice' = asked
  BY <1>1, <1>2, <1>3
<1>5. Len(sent) \in Nat /\ sent \in Seq(Anything)
  BY DEF IInv, SequencesOK
<1>6. Len(Fields(asked)) \in 0..2 /\ Len(sent) <= Len(Fields(asked))
  BY <1>2, FieldNames DEF IInv, Protocol, ClientOK
<1>7. /\ client \in {"typing", "waiting", "done"}
      /\ client = "typing" => Len(sent) < Len(Fields(asked))
      /\ client = "waiting" => Len(sent) = Len(Fields(asked)) /\ asked # EXIT
  BY <1>1 DEF IInv, Sizes, Protocol, ClientOK
<1>8. SequencesOK'
  BY <1>1, <1>3, <1>5 DEF IInv, SequencesOK, Msg
<1>9. GotOK'
  <2>1. Len(got') = 0
    BY <1>1
  <2> QED
    BY <1>4, <1>6, <2>1 DEF GotOK
<1>10. CASE asked \in {EXIT, INVALID}
  <2>1. Len(Fields(asked)) = 0 /\ wire' = <<>>
    BY <1>2, <1>3, <1>5, <1>6, <1>10, FieldsOf
  <2>2. /\ asked = EXIT => server' = "exited" /\ client = "done"
        /\ asked = INVALID => server' = "choice"
        /\ client # "typing"
    BY <1>1, <1>4, <1>5, <1>7, <2>1
  <2>3. Sizes'
    BY <1>1, <1>2, <1>4, <1>10, <2>2 DEF IInv, Sizes
  <2>4. ChoiceOK' /\ ReadingOK' /\ ServeOK' /\ ExitedOK'
    BY <1>1, <1>10, <2>1, <2>2 DEF ChoiceOK, ReadingOK, ReadingField, ServeOK, ExitedOK
  <2>5. ClientOK'
    BY <1>1, <1>2, <1>6, <1>7, <2>2 DEF ClientOK
  <2> QED
    BY <1>8, <1>9, <2>3, <2>4, <2>5 DEF Protocol
<1>11. CASE asked = DISPLAY
  <2>1. Len(Fields(asked)) = 0 /\ wire' = <<>>
    BY <1>2, <1>3, <1>5, <1>6, <1>11, FieldsOf
  <2>2. server' = "serve"
    BY <1>1, <1>4, <1>11, <2>1 DEF Awaiting
  <2>3. client \in {"waiting", "done"}
    BY <1>5, <1>7, <2>1
  <2>4. Sizes'
    BY <1>1, <1>2, <1>4, <2>2 DEF IInv, Sizes
  <2>5. ServeOK'
    BY <1>1, <1>2, <1>4, <1>11, <2>1, <2>3 DEF ServeOK
  <2>6. ChoiceOK' /\ ReadingOK' /\ ExitedOK'
    BY <2>2 DEF ChoiceOK, ReadingOK, ReadingField, ExitedOK
  <2>7. ClientOK'
    BY <1>1, <1>2, <1>6, <1>7, <2>3 DEF ClientOK
  <2> QED
    BY <1>8, <1>9, <2>4, <2>5, <2>6, <2>7 DEF Protocol
<1>12. CASE asked \in {INSERT, DELETE, SEARCH}
  <2>1. Len(Fields(asked)) > 0 /\ Fields(asked)[1] \in {"book", "acc", "type", "term"}
    BY <1>12, FieldsOf
  <2>2. server' = Fields(asked)[1]
    BY <1>1, <1>4, <1>12, <2>1 DEF Awaiting
  <2>3. Sizes'
    BY <1>1, <1>2, <1>4, <2>1, <2>2 DEF IInv, Sizes
  <2>4. ReadingOK'
    <3>1. Len(got') = 0 /\ Len(wire') = Len(sent)
      BY <1>1, <1>2, <1>3, <1>5
    <3>2. ASSUME NEW k \in 1..Len(wire')
          PROVE  IsField(k, 0 + k)'
      <4>1. k + 1 \in 2..Len(wire) /\ wire'[k] = wire[k + 1] /\ (k + 1) - 1 = k /\ 0 + k = k
        BY <1>3, <1>5, <3>1
      <4>2. IsField(k + 1, k)
        BY <1>2, <4>1
      <4> QED
        BY <1>1, <4>1, <4>2 DEF IsField
    <3> QED
      BY <1>1, <1>2, <1>4, <1>5, <2>1, <2>2, <3>1, <3>2 DEF ReadingOK
  <2>5. ChoiceOK' /\ ServeOK' /\ ExitedOK'
    BY <2>1, <2>2 DEF ChoiceOK, ServeOK, ExitedOK
  <2>6. ClientOK'
    BY <1>1, <1>2, <1>6, <1>7, <2>1, <2>2 DEF ClientOK
  <2> QED
    BY <1>8, <1>9, <2>3, <2>4, <2>5, <2>6 DEF Protocol
<1> QED
  BY <1>2, <1>10, <1>11, <1>12 DEF Operations

(* Taking a field: from the head of the wire, or, once the wire has run    *)
(* empty behind a client that is gone, whatever the variable held.         *)
LEMMA TakeFieldKeeps ==
    ASSUME IInv, ReadingField, NEW value \in Values(server), TakeField(value),
           wire' \in Seq(Msg),
           \A k \in 1..Len(wire') : wire'[k] = wire[k + 1] /\ k + 1 \in 1..Len(wire),
           (wire # <<>> /\ Len(wire') = Len(wire) - 1) \/ (client = "done" /\ wire' = <<>>)
    PROVE  SequencesOK' /\ Sizes' /\ Protocol'
<1> DEFINE n == Len(got) + 1
<1>1. /\ got' = Append(got, value) /\ server' = Awaiting(choice, n)
      /\ UNCHANGED <<database, choice, replies, client, asked, sent, requests>>
  BY DEF TakeField, clientVars
<1>2. /\ choice = asked /\ Len(got) < Len(Fields(asked))
      /\ server = Fields(asked)[n] /\ replies = <<>>
      /\ wire # <<>> \/ client # "done" => Len(got) + Len(wire) = Len(sent)
      /\ \A k \in 1..Len(wire) : IsField(k, Len(got) + k)
  BY DEF IInv, Protocol, ReadingOK
<1>3. asked \in Operations \cup {0} /\ Len(got) \in Nat /\ Len(sent) \in Nat /\ Len(wire) \in Nat
  BY DEF IInv, SequencesOK
<1>4. /\ Len(Fields(asked)) \in 0..2 /\ asked \in {INSERT, DELETE, SEARCH}
      /\ \A k \in 1..Len(Fields(asked)) : Fields(asked)[k] \in {"book", "acc", "type", "term"}
  BY <1>2, <1>3, FieldNames
<1>5. value \in Anything
  <2>1. server \in {"book", "acc", "type", "term"}
    BY <1>2, <1>3, <1>4
  <2> QED
    BY <2>1, ValuesTyped
<1>6. /\ got' \in Seq(Anything) /\ Len(got') = n
      /\ \A k \in 1..Len(got) : got'[k] = got[k]
      /\ got'[n] = value
  <2>1. got \in Seq(Anything)
    BY DEF IInv, SequencesOK
  <2> QED
    BY <1>1, <1>5, <2>1, Appended
<1>7. Len(sent) <= Len(Fields(asked)) /\ (client = "typing" => Len(sent) < Len(Fields(asked)))
  BY DEF IInv, Protocol, ClientOK
<1>8. client \in {"typing", "waiting", "done"}
  <2>1. server # "choice"
    BY DEF ReadingField
  <2> QED
    BY <2>1 DEF IInv, Sizes, Protocol, ClientOK
<1>9. n <= Len(Fields(asked)) /\ n \in Nat
  BY <1>2, <1>3, <1>4
<1>10. SequencesOK'
  BY <1>1, <1>6 DEF IInv, SequencesOK, Msg
<1>11. GotOK'
  <2>1. ASSUME NEW k \in 1..Len(got')
        PROVE  got'[k] \in Values(Fields(asked)[k])
    <3>1. CASE k \in 1..Len(got)
      BY <1>2, <1>6, <3>1 DEF IInv, Protocol, GotOK
    <3>2. CASE k = n
      BY <1>2, <1>6, <3>2
    <3> QED
      BY <1>3, <1>6, <3>1, <3>2
  <2> QED
    BY <1>1, <1>2, <1>6, <1>9, <2>1 DEF GotOK
<1>12. ClientOK'
  <2>1. server' # "choice"
    BY <1>1, <1>2, <1>3, <1>4 DEF Awaiting
  <2> QED
    BY <1>1, <1>8, <2>1 DEF IInv, Protocol, ClientOK
<1>13. CASE n < Len(Fields(asked))
  <2>1. server' = Fields(asked)[n + 1] /\ server' \in {"book", "acc", "type", "term"}
    BY <1>1, <1>2, <1>3, <1>4, <1>13 DEF Awaiting
  <2>2. Sizes'
    BY <1>1, <2>1 DEF IInv, Sizes
  <2>3. ASSUME NEW k \in 1..Len(wire')
        PROVE  /\ wire'[k].field = Fields(asked')[n + k]
               /\ wire'[k].value \in Values(wire'[k].field)
    <3>1. wire'[k] = wire[k + 1] /\ k + 1 \in 1..Len(wire)
      OBVIOUS
    <3>2. IsField(k + 1, n + k)
      <4>1. Len(got) + (k + 1) = n + k
        BY <1>3
      <4> QED
        BY <1>2, <3>1, <4>1
    <3> QED
      BY <1>1, <3>1, <3>2 DEF IsField
  <2>4. wire' # <<>> \/ client # "done" => n + Len(wire') = Len(sent)
    BY <1>2, <1>3
  <2>5. ReadingOK'
    <3>1. ASSUME NEW k \in 1..Len(wire')
          PROVE  IsField(k, Len(got) + k)'
      <4>1. Len(got') = n
        BY <1>6
      <4> QED
        BY <2>3, <4>1 DEF IsField
    <3>2. /\ choice' = asked' /\ Len(got') < Len(Fields(asked'))
          /\ server' = Fields(asked')[Len(got') + 1] /\ replies' = <<>>
          /\ wire' # <<>> \/ client' # "done" => Len(got') + Len(wire') = Len(sent')
      BY <1>1, <1>2, <1>6, <1>13, <2>1, <2>4
    <3> HIDE DEF n
    <3> QED
      BY <3>1, <3>2 DEF ReadingOK
  <2>6. ChoiceOK' /\ ServeOK' /\ ExitedOK'
    BY <2>1 DEF ChoiceOK, ServeOK, ExitedOK
  <2> QED
    BY <1>10, <1>11, <1>12, <2>2, <2>5, <2>6 DEF Protocol
<1>14. CASE n = Len(Fields(asked))
  <2>1. server' = "serve"
    BY <1>1, <1>2, <1>14 DEF Awaiting
  <2>2. Sizes'
    BY <1>1, <2>1 DEF IInv, Sizes
  <2>3. wire' = <<>>
    <3>1. CASE wire # <<>> /\ Len(wire') = Len(wire) - 1
      <4>1. Len(got) + Len(wire) = Len(sent)
        BY <1>2, <3>1
      <4>2. Len(wire') <= 0
        BY <1>3, <1>7, <1>14, <3>1, <4>1
      <4> QED
        BY <4>2, EmptySeq, LenProperties
    <3> QED
      BY <3>1
  <2>4. client \in {"waiting", "done"}
    <3>1. CASE wire # <<>>
      <4>1. Len(got) + Len(wire) = Len(sent) /\ Len(wire) # 0
        <5>1. wire \in Seq(Msg)
          BY DEF IInv, SequencesOK, Msg
        <5> QED
          BY <1>2, <3>1, <5>1, EmptySeq
      <4>2. ~(Len(sent) < Len(Fields(asked)))
        BY <1>3, <1>14, <4>1
      <4> QED
        BY <1>7, <1>8, <4>2
    <3> QED
      BY <3>1
  <2>5. ServeOK'
    BY <1>1, <1>2, <1>4, <1>6, <1>14, <2>3, <2>4 DEF ServeOK
  <2>6. ChoiceOK' /\ ReadingOK' /\ ExitedOK'
    BY <2>1 DEF ChoiceOK, ReadingOK, ReadingField, ExitedOK
  <2> QED
    BY <1>10, <1>11, <1>12, <2>2, <2>5, <2>6 DEF Protocol
<1> QED
  BY <1>4, <1>9, <1>13, <1>14

LEMMA ReadFieldKeeps ==
    ASSUME IInv, ReadField
    PROVE  SequencesOK' /\ Sizes' /\ Protocol'
<1>1. ReadingField /\ wire # <<>> /\ wire' = Tail(wire) /\ TakeField(Head(wire).value)
  BY DEF ReadField
<1>2. wire \in Seq(Msg)
  BY DEF IInv, SequencesOK, Msg
<1>3. /\ Head(wire) = wire[1] /\ 1 \in 1..Len(wire) /\ Len(wire) \in Nat /\ wire' \in Seq(Msg)
      /\ Len(wire') = Len(wire) - 1
      /\ \A k \in 1..Len(wire') : wire'[k] = wire[k + 1] /\ k + 1 \in 2..Len(wire)
  BY <1>1, <1>2, HeadAndTail
<1>4. \A k \in 1..Len(wire') : wire'[k] = wire[k + 1] /\ k + 1 \in 1..Len(wire)
  BY <1>3
<1>5. IsField(1, Len(got) + 1) /\ server = Fields(asked)[Len(got) + 1]
  BY <1>1, <1>3 DEF IInv, Protocol, ReadingOK
<1>6. Head(wire).value \in Values(server)
  BY <1>3, <1>5 DEF IsField
<1> QED
  BY <1>1, <1>3, <1>4, <1>6, TakeFieldKeeps

LEMMA FieldUnreadKeeps ==
    ASSUME IInv, FieldUnread
    PROVE  SequencesOK' /\ Sizes' /\ Protocol'
<1>1. /\ ReadingField /\ wire = <<>> /\ client = "done" /\ wire' = <<>>
      /\ \E value \in Values(server) : TakeField(value)
  BY DEF FieldUnread
<1>2. PICK value \in Values(server) : TakeField(value)
  BY <1>1
<1>3. /\ wire' \in Seq(Msg)
      /\ \A k \in 1..Len(wire') : wire'[k] = wire[k + 1] /\ k + 1 \in 1..Len(wire)
  BY <1>1
<1> QED
  BY <1>1, <1>2, <1>3, TakeFieldKeeps

(* A request is served: the array stays one, and one reply goes out.       *)
LEMMA ServeKeeps ==
    ASSUME IInv, Serve
    PROVE  SequencesOK' /\ Sizes' /\ Protocol'
<1> DEFINE Entry == [book : Typed \cup {Initially[k] : k \in DOMAIN Initially},
                     is_deleted : BOOLEAN]
<1>1. /\ server = "serve" /\ server' = "choice"
      /\ UNCHANGED <<choice, got, wire, client, asked, sent, requests>>
      /\ \E reply : replies' = Append(replies, reply)
  BY DEF Serve, Insert, InsertFull, Delete, DeleteMissing, Display, Search, Reply, clientVars
<1>2. /\ choice = asked /\ asked \in {INSERT, DELETE, DISPLAY, SEARCH}
      /\ wire = <<>> /\ replies = <<>> /\ Len(got) = Len(Fields(asked))
      /\ client \in {"waiting", "done"}
  BY <1>1 DEF IInv, Protocol, ServeOK
<1>3. replies' = <<replies'[1]>>
  <2>1. PICK reply : replies' = Append(replies, reply)
    BY <1>1
  <2>2. replies' = <<reply>>
    BY <1>2, <2>1
  <2> QED
    BY <2>2
<1>4. SequencesOK'
  BY <1>1, <1>3 DEF IInv, SequencesOK
<1>5. database \in Seq(Entry) /\ Len(database) <= MAX_BOOKS /\ Len(database) \in Nat
  BY DEF IInv, Sizes
<1>6. database' \in Seq(Entry) /\ Len(database') <= MAX_BOOKS
  <2>1. CASE Insert
    <3>1. choice = INSERT /\ Len(database) < MAX_BOOKS
          /\ database' = Append(database, Stored(got[1]))
      BY <2>1 DEF Insert, Reply
    <3>2. got[1] \in Typed
      <4>1. Len(got) = 1 /\ Fields(choice)[1] = "book"
        BY <1>2, <3>1, FieldsOf
      <4>2. got[1] \in Values("book")
        BY <4>1 DEF IInv, Protocol, GotOK
      <4> QED
        BY <4>2 DEF Values
    <3>3. Stored(got[1]) \in Entry
      BY <3>2 DEF Stored
    <3> HIDE DEF Entry
    <3>4. database' \in Seq(Entry) /\ Len(database') = Len(database) + 1
      BY <1>5, <3>1, <3>3, Appended
    <3> QED
      BY <1>5, <3>1, <3>4, CapacityAssumption
  <2>2. CASE Delete
    <3> DEFINE first == First(Hits)
    <3>1. database' = [database EXCEPT ![first].is_deleted = TRUE]
      BY <2>2 DEF Delete
    <3> HIDE DEF first
    <3>2. CASE first \in 1..Len(database)
      <4> DEFINE e == [database[first] EXCEPT !.is_deleted = TRUE]
      <4>1. e \in Entry
        <5> DEFINE d == database[first]
        <5>1. d \in Entry
          <6> HIDE DEF Entry
          <6> QED
            BY <1>5, <3>2
        <5> HIDE DEF d
        <5>2. [d EXCEPT !.is_deleted = TRUE] \in Entry
          BY <5>1
        <5> QED
          BY <5>2 DEF d
      <4>2. database' = [database EXCEPT ![first] = e]
        BY <3>1
      <4> HIDE DEF e, Entry
      <4>3. database' \in Seq(Entry) /\ Len(database') = Len(database)
        BY <1>5, <3>2, <4>1, <4>2, ExceptSeq
      <4> QED
        BY <1>5, <4>3
    <3>3. CASE first \notin 1..Len(database)
      <4>1. DOMAIN database = 1..Len(database) /\ database = [k \in DOMAIN database |-> database[k]]
        BY <1>5
      <4>2. database' = database
        BY <3>1, <3>3, <4>1
      <4> QED
        BY <1>5, <4>2
    <3> QED
      BY <3>2, <3>3
  <2>3. CASE InsertFull \/ DeleteMissing \/ Display \/ Search
    <3>1. UNCHANGED database
      BY <2>3 DEF InsertFull, DeleteMissing, Display, Search
    <3> QED
      BY <1>5, <3>1
  <2> QED
    BY <2>1, <2>2, <2>3 DEF Serve
<1>7. Sizes'
  BY <1>1, <1>6 DEF IInv, Sizes
<1>8. ChoiceOK' /\ ReadingOK' /\ ServeOK' /\ ExitedOK'
  BY <1>1, <1>2 DEF ChoiceOK, ReadingOK, ReadingField, ServeOK, ExitedOK
<1>9. ClientOK' /\ GotOK'
  BY <1>1, <1>2 DEF IInv, Protocol, ClientOK, GotOK
<1> QED
  BY <1>4, <1>7, <1>8, <1>9 DEF Protocol

-----------------------------------------------------------------------------
LEMMA InvInit == Init => IInv
<1> SUFFICES ASSUME Init PROVE IInv
  OBVIOUS
<1>1. /\ database = [k \in DOMAIN Initially |-> Stored(Initially[k])]
      /\ server = "choice" /\ choice = 0 /\ got = <<>> /\ wire = <<>> /\ replies = <<>>
      /\ client = "menu" /\ asked = 0 /\ sent = <<>> /\ requests = 0
  BY DEF Init
<1>2. SequencesOK
  BY <1>1 DEF SequencesOK
<1>3. Sizes
  <2> DEFINE Entry == [book : Typed \cup {Initially[k] : k \in DOMAIN Initially},
                       is_deleted : BOOLEAN]
  <2>1. Len(Initially) \in Nat /\ DOMAIN Initially = 1..Len(Initially)
    BY BooksAssumption
  <2>2. \A k \in 1..Len(Initially) : Stored(Initially[k]) \in Entry
    BY <2>1 DEF Stored
  <2> HIDE DEF Entry
  <2>3. database \in Seq(Entry) /\ Len(database) = Len(Initially)
    BY <1>1, <2>1, <2>2
  <2> USE DEF Entry
  <2> QED
    BY <1>1, <2>1, <2>3, CapacityAssumption, MaxRequestsAssumption DEF Sizes
<1>4. Protocol
  <2>1. Len(got) = 0 /\ Len(sent) = 0 /\ Fields(0) = <<>> /\ Len(Fields(0)) = 0
    BY <1>1, FieldsOf
  <2>2. ChoiceOK /\ ReadingOK /\ ServeOK /\ ExitedOK
    BY <1>1 DEF ChoiceOK, ReadingOK, ReadingField, ServeOK, ExitedOK
  <2>3. ClientOK /\ GotOK
    BY <1>1, <2>1 DEF ClientOK, GotOK
  <2> QED
    BY <2>2, <2>3 DEF Protocol
<1> QED
  BY <1>2, <1>3, <1>4 DEF IInv

LEMMA InvNext == IInv /\ [Next]_vars => IInv'
<1> SUFFICES ASSUME IInv, [Next]_vars PROVE SequencesOK' /\ Sizes' /\ Protocol'
  BY DEF IInv
<1>1. CASE ServerStep
  BY <1>1, ReadChoiceKeeps, DisconnectedKeeps, ReadFieldKeeps, FieldUnreadKeeps, ServeKeeps
     DEF ServerStep
<1>2. CASE ReadReply \/ Interrupt
  BY <1>2, ReadReplyKeeps, InterruptKeeps
<1>3. ASSUME NEW op \in Operations, Choose(op)
      PROVE  SequencesOK' /\ Sizes' /\ Protocol'
  BY <1>3, ChooseKeeps
<1>4. ASSUME NEW field \in {"book", "acc", "type", "term"}, NEW value \in Values(field),
             WriteField(field, value)
      PROVE  SequencesOK' /\ Sizes' /\ Protocol'
  BY <1>4, WriteFieldKeeps
<1>5. CASE UNCHANGED vars
  <2>1. UNCHANGED <<database, server, choice, got, wire, replies, client, asked, sent, requests>>
    BY <1>5 DEF vars, serverVars, clientVars
  <2>2. SequencesOK' /\ Sizes'
    BY <2>1 DEF IInv, SequencesOK, Sizes
  <2>3. ChoiceOK' /\ ServeOK' /\ ExitedOK' /\ GotOK'
    BY <2>1 DEF IInv, Protocol, ChoiceOK, ServeOK, ExitedOK, GotOK, IsField
  <2>4. ReadingOK' /\ ClientOK'
    BY <2>1 DEF IInv, Protocol, ReadingOK, ReadingField, ClientOK, IsField
  <2> QED
    BY <2>2, <2>3, <2>4 DEF Protocol
<1> QED
  BY <1>1, <1>2, <1>3, <1>4, <1>5 DEF Next

(* The invariant of the conversation: what is on the wire is exactly what  *)
(* the client has sent of the request under way and the server (the reads  *)
(* of main's switch) has not read yet.                                     *)
THEOREM Invariant == Spec => []IInv
<1> QED
  BY InvInit, InvNext, PTL DEF Spec

LEMMA WireHolds ==
    ASSUME IInv, NEW k \in DOMAIN wire
    PROVE  Holds(wire[k].field, wire[k].value)
<1>1. wire \in Seq(Msg) /\ sent \in Seq(Anything) /\ got \in Seq(Anything)
      /\ asked \in Operations \cup {0}
  BY DEF IInv, SequencesOK, Msg
<1>2. Len(wire) \in Nat /\ k \in 1..Len(wire) /\ Len(sent) \in Nat /\ Len(got) \in Nat
      /\ wire # <<>>
  BY <1>1
<1>3. /\ Len(Fields(asked)) \in 0..2 /\ Len(sent) <= Len(Fields(asked))
      /\ \A j \in 1..Len(Fields(asked)) : Fields(asked)[j] \in {"book", "acc", "type", "term"}
  BY <1>1, FieldNames DEF IInv, Protocol, ClientOK
<1>4. ASSUME NEW j \in 1..Len(Fields(asked)), IsField(k, j)
      PROVE  Holds(wire[k].field, wire[k].value)
  <2>1. wire[k].field # "choice"
    BY <1>3, <1>4 DEF IsField
  <2> QED
    BY <1>4, <2>1 DEF IsField, Holds
<1>5. CASE server = "choice"
  <2>1. /\ wire[1].field = "choice" /\ wire[1].value \in Operations
        /\ Len(wire) = 1 + Len(sent)
        /\ \A j \in 2..Len(wire) : IsField(j, j - 1)
    BY <1>2, <1>5 DEF IInv, Protocol, ChoiceOK
  <2>2. CASE k = 1
    BY <2>1, <2>2 DEF Holds
  <2>3. CASE k # 1
    <3>1. k \in 2..Len(wire) /\ k - 1 \in 1..Len(Fields(asked))
      BY <1>2, <1>3, <2>1, <2>3
    <3> QED
      BY <1>4, <2>1, <3>1
  <2> QED
    BY <2>2, <2>3
<1>6. CASE ReadingField
  <2>1. Len(got) + Len(wire) = Len(sent) /\ IsField(k, Len(got) + k)
    BY <1>2, <1>6 DEF IInv, Protocol, ReadingOK
  <2>2. Len(got) + k \in 1..Len(Fields(asked))
    BY <1>2, <1>3, <2>1
  <2> QED
    BY <1>4, <2>1, <2>2
<1>7. CASE server \in {"serve", "exited"}
  BY <1>2, <1>7 DEF IInv, Protocol, ServeOK, ExitedOK
<1> QED
  BY <1>5, <1>6, <1>7 DEF ReadingField

LEMMA GotHolds ==
    ASSUME IInv, NEW k \in DOMAIN got
    PROVE  Holds(Fields(choice)[k], got[k])
<1>1. got \in Seq(Anything) /\ choice \in Operations \cup {0}
  BY DEF IInv, SequencesOK, Sizes
<1>2. k \in 1..Len(got) /\ Len(got) \in Nat
  BY <1>1
<1>3. Len(got) <= Len(Fields(choice)) /\ got[k] \in Values(Fields(choice)[k])
  BY <1>2 DEF IInv, Protocol, GotOK
<1>4. Fields(choice)[k] \in {"book", "acc", "type", "term"}
  BY <1>1, <1>2, <1>3, FieldNames
<1> QED
  BY <1>3, <1>4 DEF Holds

LEMMA Implies == IInv => ServerInStep
<1> SUFFICES ASSUME IInv PROVE TypeOK /\ FieldsInStep
  BY DEF ServerInStep
<1>1. Len(replies) <= 1
  <2>1. \A r : Len(<<r>>) = 1
    OBVIOUS
  <2>2. CASE replies = <<replies[1]>>
    <3>1. Len(replies) = 1
      BY <2>1, <2>2, Zenon
    <3> QED
      BY <3>1
  <2>3. CASE replies = <<>>
    BY <2>3
  <2> QED
    BY <2>2, <2>3 DEF IInv, SequencesOK
<1>2. TypeOK
  BY <1>1, WireHolds, GotHolds DEF TypeOK, IInv, Sizes
<1>3. FieldsInStep
  <2> SUFFICES ASSUME wire # <<>>, server = "choice" \/ ReadingField
               PROVE  Head(wire).field = server
    BY DEF FieldsInStep
  <2>1. Head(wire) = wire[1] /\ 1 \in 1..Len(wire) /\ Len(got) \in Nat
    <3>1. wire \in Seq(Msg) /\ got \in Seq(Anything)
      BY DEF IInv, SequencesOK, Msg
    <3> QED
      BY <3>1, HeadAndTail
  <2>2. CASE server = "choice"
    BY <2>1, <2>2 DEF IInv, Protocol, ChoiceOK
  <2>3. CASE ReadingField
    BY <2>1, <2>3 DEF IInv, Protocol, ReadingOK, IsField
  <2> QED
    BY <2>2, <2>3
<1> QED
  BY <1>2, <1>3

(* For every capacity, every set of books and any number of requests: the  *)
(* next field on the connection is always the one the server, in the switch *)
(* of its main, is about to read, and the array of books is never outgrown.*)
THEOREM AlwaysInStep == Spec => []ServerInStep
<1> QED
  BY Invariant, Implies, PTL

-----------------------------------------------------------------------------

(* The parts of Picked: f[k] is what is picked of the first k elements.     *)
IsPick(f, s, K) ==
    /\ DOMAIN f = 0..Len(s)
    /\ f[0] = <<>>
    /\ \A k \in 1..Len(s) : f[k] = IF k \in K THEN Append(f[k - 1], s[k]) ELSE f[k - 1]

LEMMA Upwards ==
    ASSUME NEW T, 0 \in T, \A k \in Nat : k \in T => k + 1 \in T
    PROVE  Nat \subseteq T
<1> DEFINE U == {k \in Nat : k \notin T}
           R == OpToRel(<, Nat)
<1>1. SUFFICES ASSUME U # {} PROVE FALSE
  OBVIOUS
<1>2. PICK x \in U : \A y \in U : ~(<<y, x>> \in R)
  <2>1. IsWellFoundedOn(R, Nat)
    BY ONLY NatLessThanWellFounded, Zenon
  <2>2. U \subseteq Nat
    OBVIOUS
  <2> HIDE DEF R, U
  <2> QED BY <1>1, <2>1, <2>2, WFMin
<1>3. x \in Nat /\ x \notin T /\ x # 0
  OBVIOUS
<1>4. x - 1 \in Nat /\ (x - 1) + 1 = x /\ x - 1 < x
  BY <1>3
<1>5. x - 1 \in T
  <2>1. x - 1 \in U => <<x - 1, x>> \in R
    BY <1>3, <1>4 DEF OpToRel
  <2>2. x - 1 \notin U
    BY <1>2, <2>1
  <2> QED BY <1>4, <2>2
<1>6. x \in T
  BY <1>4, <1>5
<1> QED BY <1>3, <1>6

LEMMA PickUnique ==
    ASSUME NEW S, NEW s \in Seq(S), NEW t \in Seq(S), NEW K, NEW L,
           NEW f, IsPick(f, s, K), NEW g, IsPick(g, t, L), NEW m \in Nat,
           m <= Len(s), m <= Len(t),
           \A k \in 1..m : s[k] = t[k], \A k \in 1..m : k \in K <=> k \in L
    PROVE  f[m] = g[m]
<1> DEFINE T == {k \in Nat : k <= m => f[k] = g[k]}
<1>1. 0 \in T
  BY DEF IsPick
<1>2. ASSUME NEW k \in Nat, k \in T PROVE k + 1 \in T
  <2>1. SUFFICES ASSUME k + 1 <= m PROVE f[k + 1] = g[k + 1]
    OBVIOUS
  <2>2. f[k] = g[k] /\ k + 1 \in 1..m /\ (k + 1) - 1 = k /\ Len(s) \in Nat /\ Len(t) \in Nat
    BY <1>2, <2>1
  <2> DEFINE p == k + 1
  <2>3. p \in 1..m /\ p \in 1..Len(s) /\ p \in 1..Len(t) /\ p - 1 = k
    BY <2>2
  <2> HIDE DEF p
  <2>4. /\ f[p] = IF p \in K THEN Append(f[k], s[p]) ELSE f[k]
        /\ g[p] = IF p \in L THEN Append(g[k], t[p]) ELSE g[k]
    BY <2>3 DEF IsPick
  <2>5. s[p] = t[p] /\ (p \in K <=> p \in L)
    BY <2>3
  <2>6. f[p] = g[p]
    BY <2>2, <2>4, <2>5, Zenon
  <2> QED BY <2>6 DEF p
<1> HIDE DEF T
<1>3. Nat \subseteq T
  BY <1>1, <1>2, Upwards
<1> QED BY <1>3 DEF T

(* What is picked of s, extended by one element. *)
LEMMA PickExtends ==
    ASSUME NEW S, NEW s \in Seq(S), NEW e \in S, NEW K, NEW f, IsPick(f, s, K)
    PROVE  LET m == Len(s) + 1
               g == [k \in 0..m |-> IF k = m THEN IF m \in K THEN Append(f[m - 1], e) ELSE f[m - 1]
                                             ELSE f[k]]
           IN  IsPick(g, Append(s, e), K)
<1> DEFINE m == Len(s) + 1
           v == IF m \in K THEN Append(f[m - 1], e) ELSE f[m - 1]
           g == [k \in 0..m |-> IF k = m THEN v ELSE f[k]]
           t == Append(s, e)
<1>1. Len(t) = m /\ Len(s) \in Nat /\ m - 1 = Len(s) /\ t[m] = e /\ \A k \in 1..Len(s) : t[k] = s[k]
  BY Appended
<1> HIDE DEF t, v
<1>2. DOMAIN g = 0..Len(t) /\ g[0] = <<>>
  BY <1>1 DEF IsPick
<1>3. ASSUME NEW k \in 1..Len(t)
      PROVE  g[k] = IF k \in K THEN Append(g[k - 1], t[k]) ELSE g[k - 1]
  <2>1. k \in 0..m /\ k - 1 \in 0..m /\ k - 1 # m
    BY <1>1
  <2>2. g[k - 1] = f[k - 1]
    BY <2>1
  <2>3. CASE k = m
    <3>1. g[k] = v
      BY <2>1, <2>3
    <3> QED BY <1>1, <2>2, <2>3, <3>1 DEF v
  <2>4. CASE k # m
    <3>1. k \in 1..Len(s) /\ g[k] = f[k]
      BY <1>1, <2>1, <2>4
    <3> HIDE DEF g
    <3>2. f[k] = IF k \in K THEN Append(f[k - 1], s[k]) ELSE f[k - 1]
      BY <3>1 DEF IsPick
    <3>3. t[k] = s[k]
      BY <1>1, <3>1
    <3> QED BY <2>2, <3>1, <3>2, <3>3
  <2> QED BY <2>3, <2>4
<1> HIDE DEF g
<1>4. IsPick(g, t, K)
  BY <1>2, <1>3 DEF IsPick
<1> QED BY <1>4 DEF g, t, v

LEMMA PickExists ==
    ASSUME NEW S, NEW s \in Seq(S), NEW K
    PROVE  \E f : IsPick(f, s, K)
<1> DEFINE T == {n \in Nat : n <= Len(s) => \E f : IsPick(f, SubSeq(s, 1, n), K)}
<1>1. 0 \in T
  <2>1. SubSeq(s, 1, 0) = <<>> /\ Len(<<>>) = 0
    OBVIOUS
  <2>2. IsPick([k \in 0..0 |-> <<>>], <<>>, K)
    BY <2>1 DEF IsPick
  <2> QED BY <2>1, <2>2
<1>2. ASSUME NEW n \in Nat, n \in T PROVE n + 1 \in T
  <2>1. SUFFICES ASSUME n + 1 <= Len(s) PROVE \E f : IsPick(f, SubSeq(s, 1, n + 1), K)
    OBVIOUS
  <2>2. Len(s) \in Nat /\ n <= Len(s) /\ n + 1 \in 1..Len(s) /\ s[n + 1] \in S
    BY <2>1
  <2>3. SubSeq(s, 1, n) \in Seq(S) /\ SubSeq(s, 1, n + 1) = Append(SubSeq(s, 1, n), s[n + 1])
    BY <2>2
  <2>4. PICK f : IsPick(f, SubSeq(s, 1, n), K)
    BY <1>2, <2>2
  <2> QED BY <2>2, <2>3, <2>4, PickExtends
<1> HIDE DEF T
<1>3. Nat \subseteq T
  BY <1>1, <1>2, Upwards
<1>4. Len(s) \in Nat /\ SubSeq(s, 1, Len(s)) = s
  OBVIOUS
<1>5. \E f : IsPick(f, SubSeq(s, 1, Len(s)), K)
  BY <1>3, <1>4 DEF T
<1> QED BY <1>4, <1>5, Zenon

LEMMA PickedIs ==
    ASSUME NEW S, NEW s \in Seq(S), NEW K
    PROVE  \E f : IsPick(f, s, K) /\ Picked(s, K) = f[Len(s)]
<1> DEFINE Eq(f) == f = [k \in 0..Len(s) |-> IF k = 0 THEN <<>>
                          ELSE IF k \in K THEN Append(f[k - 1], s[k]) ELSE f[k - 1]]
           picked == CHOOSE f : Eq(f)
<1>1. PICK h : IsPick(h, s, K)
  BY PickExists
<1>2. PICK g : DOMAIN g = 0..Len(s) /\ g = [k \in 0..Len(s) |-> g[k]] /\ \A k \in 0..Len(s) : g[k] = h[k]
  <2> DEFINE g == [k \in 0..Len(s) |-> h[k]]
  <2>1. DOMAIN g = 0..Len(s) /\ \A k \in 0..Len(s) : g[k] = h[k]
    OBVIOUS
  <2>2. g = [k \in 0..Len(s) |-> g[k]]
    OBVIOUS
  <2> HIDE DEF g
  <2> QED BY <2>1, <2>2
<1>3. Len(s) \in Nat
  OBVIOUS
<1>4. Eq(g)
  <2>1. ASSUME NEW k \in 0..Len(s)
        PROVE  g[k] = IF k = 0 THEN <<>>
                      ELSE IF k \in K THEN Append(g[k - 1], s[k]) ELSE g[k - 1]
    <3>1. CASE k = 0
      BY <1>1, <1>2, <3>1 DEF IsPick
    <3>2. CASE k # 0
      <4>1. k \in 1..Len(s) /\ k - 1 \in 0..Len(s)
        BY <1>3, <3>2
      <4>2. h[k] = IF k \in K THEN Append(h[k - 1], s[k]) ELSE h[k - 1]
        BY <1>1, <4>1 DEF IsPick
      <4>3. g[k] = h[k] /\ g[k - 1] = h[k - 1]
        BY <1>2, <4>1
      <4> QED BY <3>2, <4>2, <4>3
    <3> QED BY <3>1, <3>2
  <2> QED BY <1>2, <2>1
<1>5. Eq(picked)
  <2> HIDE DEF Eq
  <2> QED BY <1>4
<1>6. Picked(s, K) = picked[Len(s)]
  BY DEF Picked
<1> HIDE DEF picked
<1>7. IsPick(picked, s, K)
  <2>1. DOMAIN picked = 0..Len(s)
    BY <1>5
  <2>2. picked[0] = <<>>
    BY <1>3, <1>5
  <2>3. ASSUME NEW k \in 1..Len(s)
        PROVE  picked[k] = IF k \in K THEN Append(picked[k - 1], s[k]) ELSE picked[k - 1]
    <3>1. k \in 0..Len(s) /\ k # 0
      BY <1>3
    <3> QED BY <1>5, <3>1
  <2> QED BY <2>1, <2>2, <2>3 DEF IsPick
<1> QED BY <1>6, <1>7

LEMMA PickedEmpty ==
    ASSUME NEW K
    PROVE  Picked(<<>>, K) = <<>>
<1>1. <<>> \in Seq({}) /\ Len(<<>>) = 0
  OBVIOUS
<1>2. PICK f : IsPick(f, <<>>, K) /\ Picked(<<>>, K) = f[Len(<<>>)]
  BY <1>1, PickedIs
<1> QED BY <1>1, <1>2 DEF IsPick

(* Only the places of the sequence matter. *)
LEMMA PickedSame ==
    ASSUME NEW S, NEW s \in Seq(S), NEW K, NEW L, \A k \in 1..Len(s) : k \in K <=> k \in L
    PROVE  Picked(s, K) = Picked(s, L)
<1>1. PICK f : IsPick(f, s, K) /\ Picked(s, K) = f[Len(s)]
  BY PickedIs
<1>2. PICK g : IsPick(g, s, L) /\ Picked(s, L) = g[Len(s)]
  BY PickedIs
<1>3. Len(s) \in Nat /\ Len(s) <= Len(s)
  OBVIOUS
<1>4. f[Len(s)] = g[Len(s)]
  <2>1. \A k \in 1..Len(s) : s[k] = s[k]
    OBVIOUS
  <2> QED BY <1>1, <1>2, <1>3, <2>1, PickUnique
<1> QED BY <1>1, <1>2, <1>4

LEMMA PickedAppend ==
    ASSUME NEW S, NEW s \in Seq(S), NEW e \in S, NEW K
    PROVE  Picked(Append(s, e), K) =
              IF Len(s) + 1 \in K THEN Append(Picked(s, K), e) ELSE Picked(s, K)
<1> DEFINE t == Append(s, e)
           m == Len(s) + 1
<1>1. t \in Seq(S) /\ Len(t) = m /\ Len(s) \in Nat /\ t[m] = e
      /\ \A k \in 1..Len(s) : t[k] = s[k]
  BY Appended
<1> HIDE DEF t
<1>2. PICK f : IsPick(f, s, K) /\ Picked(s, K) = f[Len(s)]
  BY PickedIs
<1>3. PICK g : IsPick(g, t, K) /\ Picked(t, K) = g[Len(t)]
  BY <1>1, PickedIs
<1>4. f[Len(s)] = g[Len(s)]
  <2>1. Len(s) <= Len(s) /\ Len(s) <= Len(t)
    BY <1>1
  <2>2. \A k \in 1..Len(s) : s[k] = t[k]
    BY <1>1
  <2> QED BY <1>1, <1>2, <1>3, <2>1, <2>2, PickUnique
<1>5. m \in 1..Len(t) /\ m - 1 = Len(s)
  BY <1>1
<1>6. g[m] = IF m \in K THEN Append(g[m - 1], t[m]) ELSE g[m - 1]
  BY <1>3, <1>5 DEF IsPick
<1>7. Picked(t, K) = IF m \in K THEN Append(Picked(s, K), e) ELSE Picked(s, K)
  BY <1>1, <1>2, <1>3, <1>4, <1>5, <1>6
<1> QED BY <1>7 DEF t

(* Induction over the beginnings of a sequence. *)
LEMMA Beginnings ==
    ASSUME NEW S, NEW s \in Seq(S), NEW n \in Nat, n + 1 <= Len(s)
    PROVE  /\ SubSeq(s, 1, n) \in Seq(S) /\ Len(SubSeq(s, 1, n)) = n
           /\ s[n + 1] \in S
           /\ SubSeq(s, 1, n + 1) = Append(SubSeq(s, 1, n), s[n + 1])
<1>1. Len(s) \in Nat /\ n <= Len(s) /\ n + 1 \in 1..Len(s)
  OBVIOUS
<1> QED BY <1>1

LEMMA PickedTyped ==
    ASSUME NEW S, NEW s \in Seq(S), NEW K
    PROVE  Picked(s, K) \in Seq(S)
<1> DEFINE T == {n \in Nat : n <= Len(s) => Picked(SubSeq(s, 1, n), K) \in Seq(S)}
<1>1. 0 \in T
  <2>1. SubSeq(s, 1, 0) = <<>> /\ <<>> \in Seq(S)
    OBVIOUS
  <2> QED BY <2>1, PickedEmpty
<1>2. ASSUME NEW n \in Nat, n \in T PROVE n + 1 \in T
  <2>1. SUFFICES ASSUME n + 1 <= Len(s) PROVE Picked(SubSeq(s, 1, n + 1), K) \in Seq(S)
    OBVIOUS
  <2> DEFINE t == SubSeq(s, 1, n)  e == s[n + 1]
  <2>2. t \in Seq(S) /\ Len(t) = n /\ e \in S /\ SubSeq(s, 1, n + 1) = Append(t, e)
    BY <2>1, Beginnings
  <2>3. Picked(t, K) \in Seq(S)
    BY <1>2, <2>1
  <2> HIDE DEF t, e
  <2>4. Picked(Append(t, e), K) = IF Len(t) + 1 \in K THEN Append(Picked(t, K), e) ELSE Picked(t, K)
    BY <2>2, PickedAppend
  <2>5. Append(Picked(t, K), e) \in Seq(S)
    BY <2>2, <2>3, Appended
  <2> QED BY <2>2, <2>3, <2>4, <2>5
<1> HIDE DEF T
<1>3. Nat \subseteq T
  BY <1>1, <1>2, Upwards
<1>4. Len(s) \in Nat /\ SubSeq(s, 1, Len(s)) = s
  OBVIOUS
<1>5. Picked(SubSeq(s, 1, Len(s)), K) \in Seq(S)
  BY <1>3, <1>4 DEF T
<1> QED BY <1>4, <1>5, Zenon

(* To pick everything changes nothing. *)
LEMMA PickedAll ==
    ASSUME NEW S, NEW s \in Seq(S), NEW K, 1..Len(s) \subseteq K
    PROVE  Picked(s, K) = s
<1> DEFINE T == {n \in Nat : n <= Len(s) => Picked(SubSeq(s, 1, n), K) = SubSeq(s, 1, n)}
<1>1. 0 \in T
  <2>1. SubSeq(s, 1, 0) = <<>>
    OBVIOUS
  <2> QED BY <2>1, PickedEmpty
<1>2. ASSUME NEW n \in Nat, n \in T PROVE n + 1 \in T
  <2>1. SUFFICES ASSUME n + 1 <= Len(s)
                 PROVE  Picked(SubSeq(s, 1, n + 1), K) = SubSeq(s, 1, n + 1)
    OBVIOUS
  <2> DEFINE t == SubSeq(s, 1, n)  e == s[n + 1]
  <2>2. t \in Seq(S) /\ Len(t) = n /\ e \in S /\ SubSeq(s, 1, n + 1) = Append(t, e)
    BY <2>1, Beginnings
  <2>3. Picked(t, K) = t /\ n + 1 \in K
    BY <1>2, <2>1
  <2> HIDE DEF t, e
  <2>4. Picked(Append(t, e), K) = IF Len(t) + 1 \in K THEN Append(Picked(t, K), e) ELSE Picked(t, K)
    BY <2>2, PickedAppend
  <2> QED BY <2>2, <2>3, <2>4
<1> HIDE DEF T
<1>3. Nat \subseteq T
  BY <1>1, <1>2, Upwards
<1>4. Len(s) \in Nat /\ SubSeq(s, 1, Len(s)) = s
  OBVIOUS
<1>5. Picked(SubSeq(s, 1, Len(s)), K) = SubSeq(s, 1, Len(s))
  BY <1>3, <1>4 DEF T
<1> QED BY <1>4, <1>5, Zenon

(* To pick, of what was picked, the elements of W is to pick those of W.   *)
In(s, W) == {k \in DOMAIN s : s[k] \in W}

LEMMA PickedTwice ==
    ASSUME NEW S, NEW s \in Seq(S), NEW K, NEW W
    PROVE  LET t == Picked(s, K)
           IN  Picked(t, In(t, W)) = Picked(s, {k \in K : s[k] \in W})
<1> DEFINE L == {k \in K : s[k] \in W}
           both(t) == LET u == Picked(t, K) IN Picked(u, In(u, W)) = Picked(t, L)
           T == {n \in Nat : n <= Len(s) => both(SubSeq(s, 1, n))}
<1>1. 0 \in T
  <2>1. SubSeq(s, 1, 0) = <<>>
    OBVIOUS
  <2>2. both(<<>>)
    BY PickedEmpty
  <2> HIDE DEF both
  <2> QED BY <2>1, <2>2
<1>2. ASSUME NEW n \in Nat, n \in T PROVE n + 1 \in T
  <2>1. SUFFICES ASSUME n + 1 <= Len(s) PROVE both(SubSeq(s, 1, n + 1))
    OBVIOUS
  <2> DEFINE t == SubSeq(s, 1, n)  e == s[n + 1]  u == Picked(t, K)
  <2>2. t \in Seq(S) /\ Len(t) = n /\ e \in S /\ SubSeq(s, 1, n + 1) = Append(t, e)
    BY <2>1, Beginnings
  <2>3. Picked(u, In(u, W)) = Picked(t, L)
    <3>1. n <= Len(s) => both(SubSeq(s, 1, n))
      BY <1>2
    <3>2. both(SubSeq(s, 1, n))
      <4> HIDE DEF both
      <4> QED BY <2>1, <3>1
    <3> QED BY <3>2
  <2>4. n + 1 \in L <=> n + 1 \in K /\ e \in W
    OBVIOUS
  <2> HIDE DEF e, L, t
  <2>5. u \in Seq(S)
    BY <2>2, PickedTyped
  <2>6. /\ Picked(Append(t, e), K) = IF n + 1 \in K THEN Append(u, e) ELSE u
        /\ Picked(Append(t, e), L) = IF n + 1 \in L THEN Append(Picked(t, L), e) ELSE Picked(t, L)
    BY <2>2, PickedAppend
  <2>7. CASE n + 1 \in K
    <3> DEFINE w == Append(u, e)
    <3>1. Picked(w, In(w, W)) =
            IF Len(u) + 1 \in In(w, W) THEN Append(Picked(u, In(w, W)), e) ELSE Picked(u, In(w, W))
      <4> HIDE DEF u
      <4> QED BY <2>2, <2>5, PickedAppend
    <3>2. /\ Len(w) = Len(u) + 1 /\ w[Len(u) + 1] = e /\ DOMAIN w = 1..(Len(u) + 1)
          /\ Len(u) \in Nat /\ DOMAIN u = 1..Len(u)
          /\ \A k \in 1..Len(u) : w[k] = u[k]
      <4> HIDE DEF u
      <4> QED BY <2>2, <2>5, Appended
    <3> HIDE DEF u, w
    <3>3. Len(u) + 1 \in In(w, W) <=> e \in W
      BY <3>2 DEF In
    <3>4. Picked(u, In(w, W)) = Picked(u, In(u, W))
      <4>1. \A k \in 1..Len(u) : k \in In(w, W) <=> k \in In(u, W)
        BY <3>2 DEF In
      <4> QED BY <2>5, <4>1, PickedSame
    <3>5. Picked(w, In(w, W)) = Picked(Append(t, e), L)
      BY <2>3, <2>4, <2>6, <2>7, <3>1, <3>3, <3>4
    <3>6. Picked(Append(t, e), K) = w
      BY <2>6, <2>7 DEF w
    <3> QED BY <2>2, <3>5, <3>6
  <2>8. CASE n + 1 \notin K
    <3>1. Picked(Append(t, e), K) = u /\ Picked(Append(t, e), L) = Picked(t, L)
      BY <2>4, <2>6, <2>8
    <3> QED BY <2>2, <2>3, <3>1
  <2> QED BY <2>7, <2>8
<1> HIDE DEF T, both
<1>3. Nat \subseteq T
  BY <1>1, <1>2, Upwards
<1>4. Len(s) \in Nat /\ SubSeq(s, 1, Len(s)) = s
  OBVIOUS
<1>5. both(SubSeq(s, 1, Len(s)))
  BY <1>3, <1>4 DEF T
<1>6. both(s)
  BY <1>4, <1>5, Zenon
<1> QED BY <1>6 DEF both

(* What is picked comes from a place in K, and all of it is picked.        *)
LEMMA PickedHas ==
    ASSUME NEW S, NEW s \in Seq(S), NEW K, NEW W
    PROVE  In(Picked(s, K), W) # {} <=> \E k \in K : k \in DOMAIN s /\ s[k] \in W
<1> DEFINE has(t) == In(Picked(t, K), W) # {} <=> \E k \in K : k \in DOMAIN t /\ t[k] \in W
           T == {n \in Nat : n <= Len(s) => has(SubSeq(s, 1, n))}
<1>1. 0 \in T
  <2>1. SubSeq(s, 1, 0) = <<>> /\ DOMAIN <<>> = {}
    OBVIOUS
  <2>2. has(<<>>)
    BY <2>1, PickedEmpty DEF In
  <2> HIDE DEF has
  <2> QED BY <2>1, <2>2
<1>2. ASSUME NEW n \in Nat, n \in T PROVE n + 1 \in T
  <2>1. SUFFICES ASSUME n + 1 <= Len(s) PROVE has(SubSeq(s, 1, n + 1))
    OBVIOUS
  <2> DEFINE t == SubSeq(s, 1, n)  e == s[n + 1]  u == Picked(t, K)  v == Append(t, e)
  <2>2. t \in Seq(S) /\ Len(t) = n /\ e \in S /\ SubSeq(s, 1, n + 1) = v
    BY <2>1, Beginnings
  <2>3. has(t)
    <3>1. n <= Len(s) => has(SubSeq(s, 1, n))
      BY <1>2
    <3> HIDE DEF has
    <3> QED BY <2>1, <3>1
  <2> HIDE DEF e, t
  <2>4. Picked(v, K) = IF n + 1 \in K THEN Append(u, e) ELSE u
    BY <2>2, PickedAppend
  <2>5. u \in Seq(S)
    BY <2>2, PickedTyped
  <2>6. DOMAIN v = 1..(n + 1) /\ DOMAIN t = 1..n /\ v[n + 1] = e /\ \A k \in 1..n : v[k] = t[k]
    BY <2>2, Appended
  <2> HIDE DEF v
  <2>7. (\E k \in K : k \in DOMAIN v /\ v[k] \in W)
           <=> (\E k \in K : k \in DOMAIN t /\ t[k] \in W) \/ (n + 1 \in K /\ e \in W)
    BY <2>6
  <2>8. In(Append(u, e), W) # {} <=> In(u, W) # {} \/ e \in W
    <3> HIDE DEF u
    <3> DEFINE w == Append(u, e)
    <3>1. DOMAIN w = 1..(Len(u) + 1) /\ DOMAIN u = 1..Len(u) /\ Len(u) \in Nat
          /\ w[Len(u) + 1] = e /\ \A k \in 1..Len(u) : w[k] = u[k]
      BY <2>2, <2>5, Appended
    <3> HIDE DEF w
    <3>2. In(w, W) # {} <=> In(u, W) # {} \/ e \in W
      BY <3>1 DEF In
    <3> QED BY <3>2 DEF w
  <2> HIDE DEF u
  <2>9. has(t) <=> (In(u, W) # {} <=> \E k \in K : k \in DOMAIN t /\ t[k] \in W)
    BY DEF u
  <2>10. has(v)
    BY <2>3, <2>4, <2>7, <2>8, <2>9
  <2> QED BY <2>2, <2>10
<1> HIDE DEF T, has
<1>3. Nat \subseteq T
  BY <1>1, <1>2, Upwards
<1>4. Len(s) \in Nat /\ SubSeq(s, 1, Len(s)) = s
  OBVIOUS
<1>5. has(SubSeq(s, 1, Len(s)))
  BY <1>3, <1>4 DEF T
<1>6. has(s)
  BY <1>4, <1>5, Zenon
<1> QED BY <1>6 DEF has

LEMMA FirstIs ==
    ASSUME NEW X \in SUBSET Nat, NEW p \in X, \A k \in X : p <= k
    PROVE  First(X) = p
<1>1. First(X) \in X /\ \A k \in X : First(X) <= k
  BY DEF First
<1>2. First(X) \in Nat /\ p \in Nat /\ First(X) <= p /\ p <= First(X)
  BY <1>1
<1> QED BY <1>2

(* To leave out, of what was picked, the first element of W is not to pick *)
(* the first place at which there is one.                                  *)
FirstLeftOut(s, K, W, q) ==
    LET t == Picked(s, K)
    IN  \E p \in DOMAIN t : /\ t[p] \in W
                            /\ \A k \in DOMAIN t : t[k] \in W => p <= k
                            /\ Picked(t, DOMAIN t \ {p}) = Picked(s, K \ {q})

LEMMA LeftOutThere ==
    ASSUME NEW S, NEW s \in Seq(S), NEW e \in S, NEW K, NEW W, NEW q, q = Len(s) + 1,
           q \in K, e \in W, \A k \in K : k \in DOMAIN s => s[k] \notin W
    PROVE  FirstLeftOut(Append(s, e), K, W, q)
<1> DEFINE u == Picked(s, K)  w == Append(u, e)  p == Len(u) + 1
<1>1. u \in Seq(S)
  BY PickedTyped
<1>2. Picked(Append(s, e), K) = w
  BY PickedAppend
<1>3. In(u, W) = {}
  BY PickedHas
<1>4. Picked(Append(s, e), K \ {q}) = u
  <2>1. Len(s) \in Nat
    OBVIOUS
  <2>2. \A k \in 1..Len(s) : k \in K \ {q} <=> k \in K
    BY <2>1
  <2>3. Picked(s, K \ {q}) = u
    BY <2>2, PickedSame
  <2>4. Len(s) + 1 \notin K \ {q}
    OBVIOUS
  <2> HIDE DEF u
  <2> QED BY <2>3, <2>4, PickedAppend
<1> HIDE DEF u
<1>5. /\ w \in Seq(S) /\ Len(w) = p /\ w[p] = e /\ Len(u) \in Nat
      /\ \A k \in 1..Len(u) : w[k] = u[k]
  BY <1>1, Appended
<1>6. DOMAIN u = 1..Len(u) /\ DOMAIN w = 1..p
  <2> HIDE DEF w
  <2> QED BY <1>1, <1>5
<1>7. Picked(w, DOMAIN w \ {p}) = u
  <2>1. 1..Len(u) \subseteq DOMAIN w \ {p} /\ Len(u) + 1 \notin DOMAIN w \ {p}
    <3> HIDE DEF w
    <3> QED BY <1>5, <1>6
  <2> DEFINE D == DOMAIN w \ {p}
  <2> HIDE DEF D
  <2>2. 1..Len(u) \subseteq D /\ Len(u) + 1 \notin D
    BY <2>1 DEF D
  <2>3. Picked(u, D) = u
    BY <1>1, <2>2, PickedAll
  <2>4. Picked(w, D) = u
    BY <1>1, <2>2, <2>3, PickedAppend
  <2> QED BY <2>4 DEF D
<1> HIDE DEF w
<1>8. p \in DOMAIN w /\ w[p] \in W
  BY <1>5, <1>6
<1>9. \A k \in DOMAIN w : w[k] \in W => p <= k
  <2>1. ASSUME NEW k \in DOMAIN w, k \in 1..Len(u) PROVE w[k] \notin W
    BY <1>3, <1>5, <1>6, <2>1 DEF In
  <2>2. ASSUME NEW k \in DOMAIN w, k \notin 1..Len(u) PROVE p <= k
    BY <1>5, <1>6, <2>2
  <2> QED BY <2>1, <2>2
<1> HIDE DEF p
<1>10. Picked(w, DOMAIN w \ {p}) = Picked(Append(s, e), K \ {q})
  BY <1>4, <1>7
<1> QED BY <1>2, <1>8, <1>9, <1>10 DEF FirstLeftOut

LEMMA LeftOutBefore ==
    ASSUME NEW S, NEW s \in Seq(S), NEW e \in S, NEW K, NEW W, NEW q, q # Len(s) + 1,
           FirstLeftOut(s, K, W, q)
    PROVE  FirstLeftOut(Append(s, e), K, W, q)
<1> DEFINE u == Picked(s, K)  w == Append(u, e)  L == K \ {q}
<1>1. PICK p \in DOMAIN u : /\ u[p] \in W
                            /\ \A k \in DOMAIN u : u[k] \in W => p <= k
                            /\ Picked(u, DOMAIN u \ {p}) = Picked(s, L)
  BY DEF FirstLeftOut
<1>2. u \in Seq(S)
  BY PickedTyped
<1>3. /\ Picked(Append(s, e), K) = IF Len(s) + 1 \in K THEN w ELSE u
      /\ Picked(Append(s, e), L) = IF Len(s) + 1 \in L THEN Append(Picked(s, L), e) ELSE Picked(s, L)
  <2> HIDE DEF L
  <2> QED BY PickedAppend
<1>4. Len(s) + 1 \in L <=> Len(s) + 1 \in K
  OBVIOUS
<1> HIDE DEF L, u
<1>5. CASE Len(s) + 1 \notin K
  <2>1. Picked(Append(s, e), K) = u /\ Picked(Append(s, e), L) = Picked(s, L)
    BY <1>3, <1>4, <1>5
  <2>2. Picked(u, DOMAIN u \ {p}) = Picked(Append(s, e), L)
    BY <1>1, <2>1
  <2> QED BY <1>1, <2>1, <2>2 DEF FirstLeftOut, L
<1>6. CASE Len(s) + 1 \in K
  <2>1. Picked(Append(s, e), K) = w /\ Picked(Append(s, e), L) = Append(Picked(s, L), e)
    BY <1>3, <1>4, <1>6
  <2>2. /\ w \in Seq(S) /\ Len(w) = Len(u) + 1 /\ Len(u) \in Nat
        /\ \A k \in 1..Len(u) : w[k] = u[k]
    BY <1>2, Appended
  <2>3. DOMAIN u = 1..Len(u) /\ DOMAIN w = 1..(Len(u) + 1)
    <3> HIDE DEF w
    <3> QED BY <1>2, <2>2
  <2> DEFINE D == DOMAIN w \ {p}  E == DOMAIN u \ {p}
  <2>4. Len(u) + 1 \in D /\ \A k \in 1..Len(u) : k \in D <=> k \in E
    <3> HIDE DEF w
    <3> QED BY <1>1, <2>2, <2>3
  <2>5. Picked(u, E) = Picked(s, L)
    BY <1>1
  <2> HIDE DEF D, E
  <2>6. Picked(u, D) = Picked(u, E)
    BY <1>2, <2>4, PickedSame
  <2>7. Picked(w, D) = Append(Picked(u, D), e)
    BY <1>2, <2>4, PickedAppend
  <2>8. Picked(w, D) = Picked(Append(s, e), L)
    BY <2>1, <2>5, <2>6, <2>7
  <2> HIDE DEF w
  <2>9. p \in DOMAIN w /\ w[p] \in W /\ \A k \in DOMAIN w : w[k] \in W => p <= k
    <3>1. p \in 1..Len(u) /\ p \in DOMAIN w /\ w[p] \in W
      BY <1>1, <2>2, <2>3
    <3>2. ASSUME NEW k \in DOMAIN w, w[k] \in W PROVE p <= k
      <4>1. CASE k \in 1..Len(u)
        BY <1>1, <2>2, <2>3, <3>2, <4>1
      <4>2. CASE k = Len(u) + 1
        BY <2>2, <3>1, <4>2
      <4> QED BY <2>2, <2>3, <4>1, <4>2
    <3> QED BY <3>1, <3>2
  <2>10. Picked(w, DOMAIN w \ {p}) = Picked(Append(s, e), L)
    BY <2>8 DEF D
  <2> QED BY <2>1, <2>9, <2>10 DEF FirstLeftOut, L
<1> QED BY <1>5, <1>6

LEMMA PickedWithout ==
    ASSUME NEW S, NEW s \in Seq(S), NEW K, NEW W, NEW q \in K, q \in 1..Len(s), s[q] \in W,
           \A k \in K : k \in DOMAIN s /\ s[k] \in W => q <= k
    PROVE  LET t == Picked(s, K)
           IN  Picked(t, DOMAIN t \ {First(In(t, W))}) = Picked(s, K \ {q})
<1> DEFINE out(t) == FirstLeftOut(t, K, W, q)
           T == {n \in Nat : q <= n /\ n <= Len(s) => out(SubSeq(s, 1, n))}
<1> HIDE DEF out
<1>0. Len(s) \in Nat /\ q \in Nat /\ 1 <= q /\ q <= Len(s)
  OBVIOUS
<1>1. 0 \in T
  BY <1>0
<1>2. ASSUME NEW n \in Nat, n \in T PROVE n + 1 \in T
  <2>1. SUFFICES ASSUME n + 1 <= Len(s), q <= n + 1 PROVE out(SubSeq(s, 1, n + 1))
    OBVIOUS
  <2> DEFINE t == SubSeq(s, 1, n)  e == s[n + 1]
  <2>2. t \in Seq(S) /\ Len(t) = n /\ e \in S /\ SubSeq(s, 1, n + 1) = Append(t, e)
    BY <2>1, Beginnings
  <2>3. CASE q = n + 1
    <3>1. e \in W
      BY <2>3
    <3>2. \A k \in K : k \in DOMAIN t => t[k] \notin W
      <4>1. ASSUME NEW k \in K, k \in DOMAIN t PROVE t[k] \notin W
        <5>1. k \in 1..n
          <6> HIDE DEF t
          <6> QED BY <2>2, <4>1
        <5>2. t[k] = s[k] /\ k \in DOMAIN s /\ ~(q <= k)
          BY <1>0, <2>1, <2>3, <5>1
        <5> QED BY <5>2
      <4> QED BY <4>1
    <3> HIDE DEF t, e
    <3>3. FirstLeftOut(Append(t, e), K, W, q)
      BY <2>2, <2>3, <3>1, <3>2, LeftOutThere
    <3> QED BY <2>2, <3>3 DEF out
  <2>4. CASE q # n + 1
    <3>1. out(t)
      BY <1>0, <1>2, <2>1, <2>4
    <3> HIDE DEF t, e
    <3>2. FirstLeftOut(Append(t, e), K, W, q)
      BY <2>2, <2>4, <3>1, LeftOutBefore DEF out
    <3> QED BY <2>2, <3>2 DEF out
  <2> QED BY <2>3, <2>4
<1> HIDE DEF T
<1>3. Nat \subseteq T
  BY <1>1, <1>2, Upwards
<1>4. SubSeq(s, 1, Len(s)) = s
  OBVIOUS
<1>5. out(SubSeq(s, 1, Len(s)))
  BY <1>0, <1>3 DEF T
<1>6. out(s)
  BY <1>4, <1>5, Zenon
<1> DEFINE t == Picked(s, K)
<1>7. PICK p \in DOMAIN t : /\ t[p] \in W
                            /\ \A k \in DOMAIN t : t[k] \in W => p <= k
                            /\ Picked(t, DOMAIN t \ {p}) = Picked(s, K \ {q})
  BY <1>6 DEF out, FirstLeftOut
<1>8. t \in Seq(S)
  BY PickedTyped
<1> HIDE DEF t
<1>9. In(t, W) \in SUBSET Nat /\ p \in In(t, W) /\ \A k \in In(t, W) : p <= k
  BY <1>7, <1>8 DEF In
<1>10. First(In(t, W)) = p
  BY <1>9, FirstIs
<1> QED BY <1>7, <1>10 DEF t

-----------------------------------------------------------------------------
(* While the client is there, every field on its way or read is the one    *)
(* the user has sent,                                                      *)
ValuesOK ==
    client # "done" =>
        /\ server = "choice" => \A k \in 2..Len(wire) : wire[k].value = sent[k - 1]
        /\ ReadingField => \A k \in 1..Len(wire) : wire[k].value = sent[Len(got) + k]
        /\ server # "choice" => \A k \in 1..Len(got) : got[k] = sent[k]

(* and the client knows the books the server lists: at once, or as soon as *)
(* it has read the reply under way.                                        *)
ShelfOK ==
    client # "done" =>
        /\ replies = <<>> => shelf = Listed
        /\ replies # <<>> => Told(replies[1]) = Listed /\ Agrees(replies[1])

RInv == IInv /\ ValuesOK /\ ShelfOK

(* A reply is on its way only while nothing else is.                       *)
LEMMA ReplyAlone ==
    ASSUME IInv, replies # <<>>, client # "done"
    PROVE  client = "waiting" /\ server = "choice" /\ wire = <<>>
<1>1. server \in {"choice", "book", "acc", "type", "term", "serve", "exited"}
      /\ client \in {"menu", "typing", "waiting", "done"}
  BY DEF IInv, Sizes
<1>2. server # "serve" /\ server # "exited" /\ ~ReadingField
  BY DEF IInv, Protocol, ServeOK, ExitedOK, ReadingOK
<1>3. server = "choice"
  BY <1>1, <1>2 DEF ReadingField
<1>4. wire = <<>>
  BY <1>3 DEF IInv, Protocol, ChoiceOK
<1>5. client # "menu" /\ client # "typing"
  BY <1>3, <1>4 DEF IInv, Protocol, ClientOK
<1> QED BY <1>1, <1>3, <1>4, <1>5

LEMMA ChooseValues ==
    ASSUME IInv, NEW op \in Operations, Choose(op)
    PROVE  ValuesOK'
<1>1. wire = <<>> /\ server = "choice"
  BY DEF Choose, IInv, Protocol, ClientOK
<1>2. wire' = Append(wire, Message("choice", op)) /\ server' = server
  BY DEF Choose, serverVars
<1>3. Len(wire') = 1
  BY <1>1, <1>2
<1> QED BY <1>1, <1>2, <1>3 DEF ValuesOK, ReadingField

LEMMA WriteFieldValues ==
    ASSUME IInv, ValuesOK, NEW field \in {"book", "acc", "type", "term"},
           NEW value \in Values(field), WriteField(field, value)
    PROVE  ValuesOK'
<1> DEFINE m == Message(field, value)
<1>1. /\ client = "typing" /\ client' # "done"
      /\ wire' = Append(wire, m) /\ sent' = Append(sent, value)
      /\ UNCHANGED <<server, got>>
  BY DEF WriteField, serverVars
<1>2. Len(sent) < Len(Fields(asked)) /\ (server = "choice" => wire # <<>>)
  BY <1>1 DEF IInv, Protocol, ClientOK
<1>3. m \in Msg /\ m.value = value /\ value \in Anything
  BY ValuesTyped DEF Message, Msg, Names
<1>4. /\ Len(wire') = Len(wire) + 1 /\ Len(wire) \in Nat
      /\ \A k \in 1..Len(wire) : wire'[k] = wire[k]
      /\ wire'[Len(wire) + 1] = m
  <2>1. wire \in Seq(Msg)
    BY DEF IInv, SequencesOK, Msg
  <2> HIDE DEF m
  <2> QED BY <1>1, <1>3, <2>1, Appended
<1>5. /\ Len(sent') = Len(sent) + 1 /\ Len(sent) \in Nat
      /\ \A k \in 1..Len(sent) : sent'[k] = sent[k]
      /\ sent'[Len(sent) + 1] = value
  <2>1. sent \in Seq(Anything)
    BY DEF IInv, SequencesOK
  <2> QED BY <1>1, <1>3, <2>1, Appended
<1> HIDE DEF m
<1>6. Len(got) \in Nat
  BY DEF IInv, SequencesOK
<1>7. ASSUME server = "choice"
      PROVE  \A k \in 2..Len(wire') : wire'[k].value = sent'[k - 1]
  <2>1. Len(wire) = 1 + Len(sent) /\ \A k \in 2..Len(wire) : wire[k].value = sent[k - 1]
    BY <1>1, <1>2, <1>7 DEF IInv, Protocol, ChoiceOK, ValuesOK
  <2>2. ASSUME NEW k \in 2..Len(wire') PROVE wire'[k].value = sent'[k - 1]
    <3>1. CASE k \in 2..Len(wire)
      <4>1. k - 1 \in 1..Len(sent) /\ k \in 1..Len(wire)
        BY <1>5, <2>1, <3>1
      <4> QED BY <1>4, <1>5, <2>1, <3>1, <4>1
    <3>2. CASE k = Len(wire) + 1
      <4>1. k - 1 = Len(sent) + 1
        BY <1>5, <2>1, <3>2
      <4> QED BY <1>3, <1>4, <1>5, <3>2, <4>1
    <3> QED BY <1>4, <3>1, <3>2
  <2> QED BY <2>2
<1>8. ASSUME ReadingField
      PROVE  /\ \A k \in 1..Len(wire') : wire'[k].value = sent'[Len(got) + k]
             /\ \A k \in 1..Len(got) : got[k] = sent'[k]
  <2>1. /\ Len(got) + Len(wire) = Len(sent)
        /\ \A k \in 1..Len(wire) : wire[k].value = sent[Len(got) + k]
        /\ \A k \in 1..Len(got) : got[k] = sent[k]
    BY <1>1, <1>8 DEF IInv, Protocol, ReadingOK, ValuesOK, ReadingField
  <2>2. ASSUME NEW k \in 1..Len(wire') PROVE wire'[k].value = sent'[Len(got) + k]
    <3>1. CASE k \in 1..Len(wire)
      <4>1. Len(got) + k \in 1..Len(sent)
        BY <1>4, <1>5, <1>6, <2>1, <3>1
      <4> QED BY <1>4, <1>5, <2>1, <3>1, <4>1
    <3>2. CASE k = Len(wire) + 1
      <4>0. Len(got) + Len(wire) = Len(sent)
        BY <2>1
      <4>1. Len(got) + k = Len(sent) + 1
        BY <1>4, <1>5, <1>6, <3>2, <4>0
      <4> QED BY <1>3, <1>4, <1>5, <3>2, <4>1
    <3> QED BY <1>4, <3>1, <3>2
  <2>3. ASSUME NEW k \in 1..Len(got) PROVE got[k] = sent'[k]
    <3>1. k \in 1..Len(sent)
      BY <1>4, <1>5, <1>6, <2>1
    <3> QED BY <1>5, <2>1, <3>1
  <2> QED BY <2>2, <2>3
<1>9. server \notin {"serve", "exited"}
  BY <1>1 DEF IInv, Protocol, ServeOK, ExitedOK
<1>10. server # "choice" => ReadingField
  BY <1>9 DEF ReadingField
<1> QED BY <1>1, <1>7, <1>8, <1>10 DEF ValuesOK, ReadingField

LEMMA ReadChoiceValues ==
    ASSUME IInv, ValuesOK, ReadChoice
    PROVE  ValuesOK'
<1>1. SUFFICES ASSUME client # "done" PROVE ValuesOK'
  BY DEF ValuesOK, ReadChoice, clientVars
<1>2. /\ server = "choice" /\ wire # <<>> /\ wire' = Tail(wire) /\ got' = <<>>
      /\ UNCHANGED <<client, sent>>
  BY DEF ReadChoice, clientVars
<1>3. \A k \in 2..Len(wire) : wire[k].value = sent[k - 1]
  BY <1>1, <1>2 DEF ValuesOK
<1>4. \A k \in 1..Len(wire') : wire'[k] = wire[k + 1] /\ k + 1 \in 2..Len(wire)
  <2>1. wire \in Seq(Msg)
    BY DEF IInv, SequencesOK, Msg
  <2> QED BY <1>2, <2>1, HeadAndTail
<1>5. \A k \in 1..Len(wire') : wire'[k].value = sent[k]
  BY <1>3, <1>4
<1>6. Len(got') = 0
  BY <1>2
<1>7. server' = "choice" => wire' = <<>>
  <2>1. /\ wire[1].value = asked /\ asked \in Operations
        /\ Len(wire) = 1 + Len(sent)
    BY <1>2 DEF IInv, Protocol, ChoiceOK
  <2>2. Head(wire) = wire[1] /\ (wire' = <<>> <=> Len(wire) = 1)
    <3>1. wire \in Seq(Msg)
      BY DEF IInv, SequencesOK, Msg
    <3> QED BY <1>2, <3>1, HeadAndTail
  <2>3. server' = CASE asked = EXIT -> "exited"
                    [] asked = INVALID -> "choice"
                    [] asked \notin {EXIT, INVALID} -> Awaiting(asked, 0)
    BY <2>1, <2>2 DEF ReadChoice
  <2>4. CASE asked \in {EXIT, INVALID, DISPLAY}
    <3>1. Len(Fields(asked)) = 0 /\ Len(sent) <= Len(Fields(asked)) /\ Len(sent) \in Nat
      BY <2>4, FieldsOf DEF IInv, SequencesOK, Protocol, ClientOK
    <3> QED BY <2>1, <2>2, <3>1
  <2>5. CASE asked \in {INSERT, DELETE, SEARCH}
    <3>1. Len(Fields(asked)) > 0 /\ Fields(asked)[1] # "choice"
      BY <2>5, FieldsOf
    <3>2. server' = Awaiting(asked, 0)
      BY <2>3, <2>5
    <3>3. server' = Fields(asked)[1]
      BY <3>1, <3>2 DEF Awaiting
    <3> QED BY <3>1, <3>3
  <2> QED BY <2>1, <2>4, <2>5 DEF Operations
<1>8. server' = "choice" => Len(wire') = 0
  BY <1>7
<1>9. \A k \in 1..Len(wire') : Len(got') + k = k
  BY <1>6
<1>10. ReadingField' => \A k \in 1..Len(wire') : wire'[k].value = sent'[Len(got') + k]
  BY <1>2, <1>5, <1>9
<1>11. server' = "choice" => \A k \in 2..Len(wire') : wire'[k].value = sent'[k - 1]
  BY <1>8
<1>12. \A k \in 1..Len(got') : got'[k] = sent'[k]
  BY <1>6
<1> QED BY <1>10, <1>11, <1>12 DEF ValuesOK

LEMMA ReadFieldValues ==
    ASSUME IInv, ValuesOK, ReadField
    PROVE  ValuesOK'
<1> DEFINE v == Head(wire).value
<1>1. /\ ReadingField /\ wire # <<>> /\ wire' = Tail(wire)
      /\ got' = Append(got, v) /\ server' = Awaiting(choice, Len(got) + 1)
      /\ UNCHANGED <<client, sent>>
  BY DEF ReadField, TakeField, clientVars
<1>2. SUFFICES ASSUME client # "done" PROVE ValuesOK'
  BY <1>1 DEF ValuesOK
<1>3. wire \in Seq(Msg) /\ got \in Seq(Anything)
  BY DEF IInv, SequencesOK, Msg
<1>4. /\ Head(wire) = wire[1] /\ Head(wire) \in Msg /\ 1 \in 1..Len(wire)
      /\ \A k \in 1..Len(wire') : wire'[k] = wire[k + 1] /\ k + 1 \in 2..Len(wire)
  BY <1>1, <1>3, HeadAndTail
<1>5. v \in Anything
  BY <1>4 DEF Msg
<1>6. /\ Len(got') = Len(got) + 1 /\ Len(got) \in Nat
      /\ \A k \in 1..Len(got) : got'[k] = got[k]
      /\ got'[Len(got) + 1] = v
  <2> HIDE DEF v
  <2> QED BY <1>1, <1>3, <1>5, Appended
<1>7. /\ \A k \in 1..Len(wire) : wire[k].value = sent[Len(got) + k]
      /\ \A k \in 1..Len(got) : got[k] = sent[k]
  BY <1>1, <1>2 DEF ValuesOK, ReadingField
<1>8. v = sent[Len(got) + 1]
  BY <1>4, <1>7
<1> HIDE DEF v
<1>9. \A k \in 1..Len(got') : got'[k] = sent'[k]
  <2>1. ASSUME NEW k \in 1..Len(got') PROVE got'[k] = sent'[k]
    <3>1. CASE k \in 1..Len(got)
      BY <1>1, <1>6, <1>7, <3>1
    <3>2. CASE k = Len(got) + 1
      BY <1>1, <1>6, <1>8, <3>2
    <3> QED BY <1>6, <3>1, <3>2
  <2> QED BY <2>1
<1>10. \A k \in 1..Len(wire') : wire'[k].value = sent'[Len(got') + k]
  <2>1. ASSUME NEW k \in 1..Len(wire') PROVE wire'[k].value = sent'[Len(got') + k]
    <3>1. wire'[k] = wire[k + 1] /\ k + 1 \in 1..Len(wire)
      BY <1>4
    <3>2. Len(got) + (k + 1) = Len(got') + k
      BY <1>6
    <3>3. wire[k + 1].value = sent[Len(got) + (k + 1)]
      BY <1>7, <3>1
    <3> QED BY <1>1, <3>1, <3>2, <3>3
  <2> QED BY <2>1
<1>11. server' # "choice"
  <2>1. /\ choice = asked /\ Len(got) < Len(Fields(asked)) /\ asked \in Operations \cup {0}
    BY <1>1 DEF IInv, Protocol, ReadingOK, SequencesOK
  <2>2. /\ Len(Fields(asked)) \in 0..2
        /\ \A k \in 1..Len(Fields(asked)) : Fields(asked)[k] \in {"book", "acc", "type", "term"}
    BY <2>1, FieldNames
  <2>3. CASE Len(got) + 1 < Len(Fields(asked))
    <3>1. (Len(got) + 1) + 1 \in 1..Len(Fields(asked))
      BY <1>6, <2>2, <2>3
    <3> QED BY <1>1, <2>1, <2>2, <2>3, <3>1 DEF Awaiting
  <2>4. CASE ~(Len(got) + 1 < Len(Fields(asked)))
    BY <1>1, <2>1, <2>4 DEF Awaiting
  <2> QED BY <2>3, <2>4
<1> QED BY <1>9, <1>10, <1>11 DEF ValuesOK

LEMMA FirstOf ==
    ASSUME NEW X \in SUBSET Nat, X # {}
    PROVE  First(X) \in X /\ \A k \in X : First(X) <= k
<1> DEFINE R == OpToRel(<, Nat)
<1>1. IsWellFoundedOn(R, Nat)
  BY ONLY NatLessThanWellFounded, Zenon
<1>2. PICK x \in X : \A y \in X : ~(<<y, x>> \in R)
  <2> HIDE DEF R
  <2> QED BY <1>1, WFMin
<1>3. ASSUME NEW y \in X PROVE x <= y
  <2>1. ~(<<y, x>> \in R)
    BY <1>2
  <2>2. ~(y < x)
    BY <2>1 DEF OpToRel
  <2> QED BY <2>2
<1> QED BY <1>3 DEF First

LEMMA BooksTyped ==
    ASSUME IInv
    PROVE  /\ Books \in Seq(BookType) /\ Len(Books) = Len(database) /\ Len(database) \in Nat
           /\ DOMAIN database = 1..Len(database) /\ DOMAIN Books = 1..Len(database)
           /\ Places \subseteq 1..Len(database)
           /\ \A k \in 1..Len(database) : Books[k] = database[k].book
<1> DEFINE Had == Typed \cup {Initially[k] : k \in DOMAIN Initially}
           Entry == [book : Had, is_deleted : BOOLEAN]
<1>1. Had \subseteq BookType
  <2>1. \A k \in DOMAIN Initially : Initially[k] \in BookType
    BY BooksAssumption
  <2> QED BY <2>1, BooksAssumption
<1>2. database \in Seq(Entry)
  BY DEF IInv, Sizes
<1> HIDE DEF Had
<1>3. \A e \in Entry : e.book \in BookType
  BY <1>1
<1> HIDE DEF Entry
<1>4. Len(database) \in Nat /\ DOMAIN database = 1..Len(database)
      /\ \A k \in 1..Len(database) : database[k] \in Entry
  BY <1>2
<1>5. Books = [k \in 1..Len(database) |-> database[k].book]
  BY <1>4 DEF Books
<1>6. \A k \in 1..Len(database) : database[k].book \in BookType
  BY <1>3, <1>4
<1>7. Books \in Seq(BookType) /\ Len(Books) = Len(database)
  BY <1>4, <1>5, <1>6
<1> QED BY <1>4, <1>5, <1>7 DEF Places

LEMMA ListedTyped ==
    ASSUME IInv
    PROVE  Listed \in Seq(BookType)
BY BooksTyped, PickedTyped DEF Listed

(* What the server starts to serve from. *)
LEMMA Serving ==
    ASSUME RInv, server = "serve", client # "done"
    PROVE  /\ shelf = Listed /\ shelf \in Seq(BookType) /\ choice = asked
           /\ wire = <<>> /\ replies = <<>>
           /\ Len(got) = Len(Fields(asked)) /\ \A k \in 1..Len(got) : got[k] = sent[k]
<1>1. choice = asked /\ wire = <<>> /\ replies = <<>> /\ Len(got) = Len(Fields(asked))
  BY DEF RInv, IInv, Protocol, ServeOK
<1>2. shelf = Listed
  BY <1>1 DEF RInv, ShelfOK
<1>3. \A k \in 1..Len(got) : got[k] = sent[k]
  BY DEF RInv, ValuesOK
<1> QED BY <1>1, <1>2, <1>3, ListedTyped DEF RInv

LEMMA Answered ==
    ASSUME RInv, client # "done", NEW op, NEW reply, Reply(op, reply),
           Told(reply) = Listed', Agrees(reply)
    PROVE  ShelfOK'
<1>1. /\ server = "serve" /\ replies' = Append(replies, reply)
      /\ UNCHANGED <<client, asked, sent, shelf>>
  BY DEF Reply, clientVars
<1>2. replies = <<>>
  BY <1>1, Serving
<1>3. replies' = <<reply>> /\ replies' # <<>> /\ replies'[1] = reply
  <2>1. replies' = <<reply>>
    BY <1>1, <1>2
  <2>2. \A r : <<r>> # <<>> /\ <<r>>[1] = r
    OBVIOUS
  <2> QED BY <2>1, <2>2, Zenon
<1>4. Told(replies[1])' = Told(reply)
  BY <1>1, <1>3, Zenon DEF Told, Wanted
<1>5. Agrees(replies[1])' <=> Agrees(reply)
  BY <1>1, <1>3, Zenon DEF Agrees, Matches
<1> QED BY <1>3, <1>4, <1>5 DEF ShelfOK

LEMMA InsertShelf ==
    ASSUME RInv, client # "done", Insert
    PROVE  ShelfOK'
<1> DEFINE b == got[1]  n == Len(database) + 1
<1>1. /\ server = "serve" /\ choice = INSERT /\ Reply(INSERT, [kind |-> "inserted"])
      /\ database' = Append(database, Stored(b))
  BY DEF Insert, Reply
<1>2. IInv
  BY DEF RInv
<1>3. /\ shelf = Listed /\ asked = INSERT /\ Len(got) = 1 /\ b = sent[1]
  <2>1. /\ shelf = Listed /\ choice = asked /\ Len(got) = Len(Fields(asked))
        /\ \A k \in 1..Len(got) : got[k] = sent[k]
    BY <1>1, Serving
  <2>2. Len(got) = 1
    BY <1>1, <2>1, FieldsOf
  <2> QED BY <1>1, <2>1, <2>2
<1>4. b \in BookType
  <2>1. got[1] \in Values(Fields(choice)[1])
    BY <1>3 DEF RInv, IInv, Protocol, GotOK
  <2>2. Fields(choice)[1] = "book"
    BY <1>1, FieldsOf
  <2> QED BY <2>1, <2>2, BooksAssumption DEF Values
<1> DEFINE Entry == [book : BookType, is_deleted : BOOLEAN]
<1>5. /\ Books \in Seq(BookType) /\ Len(Books) = Len(database) /\ Len(database) \in Nat
      /\ DOMAIN database = 1..Len(database) /\ DOMAIN Books = 1..Len(database)
      /\ Places \subseteq 1..Len(database)
      /\ \A k \in 1..Len(database) : Books[k] = database[k].book
  BY <1>2, BooksTyped
<1>6. /\ DOMAIN database' = 1..n /\ \A k \in 1..Len(database) : database'[k] = database[k]
      /\ database'[n] = Stored(b)
  <2> DEFINE All == [book : Typed \cup {Initially[k] : k \in DOMAIN Initially},
                     is_deleted : BOOLEAN]
  <2>1. database \in Seq(All) 
    BY <1>2 DEF IInv, Sizes
  <2>2. Stored(b) \in UNION {All, {Stored(b)}} /\ All \subseteq UNION {All, {Stored(b)}}
    OBVIOUS
  <2> DEFINE More == UNION {All, {Stored(b)}}
  <2> HIDE DEF All
  <2>3. database \in Seq(More) /\ Stored(b) \in More
    BY <2>1
  <2> HIDE DEF More, b
  <2>4. /\ database' \in Seq(More) /\ Len(database') = n
        /\ \A k \in 1..Len(database) : database'[k] = database[k]
        /\ database'[n] = Stored(b)
    BY <1>1, <2>3, Appended
  <2>5. DOMAIN database' = 1..n
    <3>1. \A q \in Seq(More) : DOMAIN q = 1..Len(q)
      OBVIOUS
    <3> HIDE DEF n
    <3> QED BY <2>4, <3>1
  <2>6. database'[n] = Stored(b) /\ \A k \in 1..Len(database) : database'[k] = database[k]
    BY <2>4
  <2> QED BY <2>5, <2>6
<1> HIDE DEF b
<1>7. Books' = Append(Books, b)
  <2>1. Books' = [k \in 1..n |-> database'[k].book]
    BY <1>6 DEF Books
  <2>2. ASSUME NEW k \in 1..n PROVE database'[k].book = Append(Books, b)[k]
    <3>0. /\ \A j \in 1..Len(Books) : Append(Books, b)[j] = Books[j]
          /\ Append(Books, b)[Len(Books) + 1] = b
      BY <1>4, <1>5, Appended
    <3>1. CASE k = n
      <4>1. Stored(b).book = b
        BY DEF Stored
      <4> QED BY <1>5, <1>6, <3>0, <3>1, <4>1
    <3>2. CASE k # n
      <4>1. k \in 1..Len(database)
        BY <1>5, <3>2
      <4>2. database'[k] = database[k] /\ Books[k] = database[k].book
        BY <1>5, <1>6, <4>1
      <4>3. Append(Books, b)[k] = Books[k]
        BY <1>5, <3>0, <4>1
      <4> QED BY <4>2, <4>3
    <3> QED BY <3>1, <3>2
  <2>3. Append(Books, b) = [k \in 1..n |-> Append(Books, b)[k]]
    <3> DEFINE t == Append(Books, b)
    <3>1. t \in Seq(BookType) /\ Len(t) = n
      BY <1>4, <1>5, Appended
    <3> HIDE DEF t
    <3>2. t = [k \in 1..n |-> t[k]]
      BY <3>1
    <3> QED BY <3>2 DEF t
  <2> QED BY <2>1, <2>2, <2>3
<1>8. Places' = Places \cup {n}
  <2>1. Places' = {k \in 1..n : ~database'[k].is_deleted}
    BY <1>6 DEF Places, Active
  <2>2. Places = {k \in 1..Len(database) : ~database[k].is_deleted}
    BY <1>5 DEF Places, Active
  <2>3. ~Stored(b).is_deleted
    BY DEF Stored
  <2>4. \A k : k \in 1..n <=> k \in 1..Len(database) \/ k = n
    BY <1>5
  <2> QED BY <1>6, <2>1, <2>2, <2>3, <2>4
<1>9. Listed' = Append(Listed, b)
  <2> DEFINE L == Places \cup {n}
  <2>1. Len(Books) + 1 \in L /\ \A k \in 1..Len(Books) : k \in L <=> k \in Places
    BY <1>5
  <2> HIDE DEF L
  <2>2. Picked(Books, L) = Picked(Books, Places)
    BY <1>5, <2>1, PickedSame
  <2>3. Picked(Append(Books, b), L) = Append(Picked(Books, L), b)
    BY <1>4, <1>5, <2>1, PickedAppend
  <2>4. Listed' = Picked(Append(Books, b), L)
    BY <1>7, <1>8 DEF Listed, L, Picked
  <2> QED BY <2>2, <2>3, <2>4 DEF Listed
<1>10. PICK reply : reply = [kind |-> "inserted"]
  OBVIOUS
<1>11. Told(reply) = Append(shelf, sent[1])
  BY <1>10 DEF Told
<1>12. Agrees(reply)
  BY <1>3, <1>10 DEF Agrees
<1> QED BY <1>1, <1>3, <1>9, <1>10, <1>11, <1>12, Answered

(* Steps of the server that leave the array alone. *)
LEMMA Unchanged ==
    ASSUME UNCHANGED database
    PROVE  Listed' = Listed
BY DEF Listed, Books, Places, Active, Picked

LEMMA InsertFullShelf ==
    ASSUME RInv, client # "done", InsertFull
    PROVE  ShelfOK'
<1>1. /\ server = "serve" /\ choice = INSERT /\ Reply(INSERT, [kind |-> "full"])
      /\ UNCHANGED database
  BY DEF InsertFull, Reply
<1>2. shelf = Listed /\ asked = INSERT
  BY <1>1, Serving
<1>3. PICK reply : reply = [kind |-> "full"]
  OBVIOUS
<1>4. Told(reply) = shelf
  BY <1>3 DEF Told
<1>5. Agrees(reply)
  BY <1>2, <1>3 DEF Agrees
<1> QED BY <1>1, <1>2, <1>3, <1>4, <1>5, Answered, Unchanged

LEMMA DisplayShelf ==
    ASSUME RInv, client # "done", Display
    PROVE  ShelfOK'
<1>1. PICK reply : reply = [kind |-> "list", books |-> Listed]
  OBVIOUS
<1>2. /\ server = "serve" /\ choice = DISPLAY /\ Reply(DISPLAY, reply)
      /\ UNCHANGED database
  BY <1>1 DEF Display, Reply, Listed
<1>3. shelf = Listed /\ asked = DISPLAY
  BY <1>2, Serving
<1>4. Told(reply) = shelf
  BY <1>1 DEF Told
<1>5. Agrees(reply)
  BY <1>1, <1>3 DEF Agrees
<1> QED BY <1>2, <1>3, <1>4, <1>5, Answered, Unchanged

LEMMA SearchShelf ==
    ASSUME RInv, client # "done", Search
    PROVE  ShelfOK'
<1> DEFINE W == {b \in BookType : Matches(b, sent[1], sent[2])}
           K == {k \in Places : Matches(Books[k], got[1], got[2])}
<1>1. PICK reply : reply = [kind |-> "list", books |-> Picked(Books, K)]
  OBVIOUS
<1>2. /\ server = "serve" /\ choice = SEARCH /\ Reply(SEARCH, reply)
      /\ UNCHANGED database
  BY <1>1 DEF Search, Reply
<1>3. /\ shelf = Listed /\ asked = SEARCH /\ shelf \in Seq(BookType)
      /\ got[1] = sent[1] /\ got[2] = sent[2]
  <2>1. /\ shelf = Listed /\ choice = asked /\ Len(got) = Len(Fields(asked))
        /\ shelf \in Seq(BookType)
        /\ \A k \in 1..Len(got) : got[k] = sent[k]
    BY <1>2, Serving
  <2>2. Fields(asked) = <<"type", "term">>
    BY <1>2, <2>1, FieldsOf
  <2>3. Len(got) = 2
    BY <2>1, <2>2
  <2>4. got[1] = sent[1] /\ got[2] = sent[2]
    BY <2>1, <2>3
  <2> QED BY <1>2, <2>1, <2>4
<1>4. /\ Books \in Seq(BookType) /\ DOMAIN Books = 1..Len(database)
      /\ Places \subseteq 1..Len(database)
  BY BooksTyped DEF RInv
<1>5. \A k \in Places : Books[k] \in W <=> Matches(Books[k], got[1], got[2])
  <2>1. \A k \in Places : Books[k] \in BookType
    BY <1>4
  <2> QED BY <1>3, <2>1, Zenon
<1>6. {k \in Places : Books[k] \in W} = K
  <2> HIDE DEF W
  <2> QED BY <1>5
<1>7. {k \in DOMAIN shelf : Matches(shelf[k], sent[1], sent[2])} = In(shelf, W)
  <2>1. \A k \in DOMAIN shelf : shelf[k] \in BookType
    BY <1>3
  <2>2. \A k \in DOMAIN shelf : shelf[k] \in W <=> Matches(shelf[k], sent[1], sent[2])
    BY <2>1, Zenon
  <2> HIDE DEF W
  <2> QED BY <2>2 DEF In
<1> HIDE DEF W, K
<1>8. Picked(shelf, In(shelf, W)) = Picked(Books, K)
  <2>1. Picked(Listed, In(Listed, W)) = Picked(Books, {k \in Places : Books[k] \in W})
    <3>1. Books \in Seq(BookType)
      BY <1>4
    <3>2. LET t == Picked(Books, Places)
          IN  Picked(t, In(t, W)) = Picked(Books, {k \in Places : Books[k] \in W})
      BY ONLY <3>1, PickedTwice
    <3> QED BY <3>2 DEF Listed
  <2> QED BY <1>3, <1>6, <2>1
<1>9. Told(reply) = shelf
  BY <1>1 DEF Told
<1>10. Agrees(reply)
  <2>1. reply.books = Picked(shelf, {k \in DOMAIN shelf : Matches(shelf[k], sent[1], sent[2])})
    BY <1>1, <1>7, <1>8
  <2> QED BY <1>3, <2>1 DEF Agrees
<1> QED BY <1>2, <1>3, <1>9, <1>10, Answered, Unchanged

(* The books with the number the client has sent. *)
Numbered == {b \in BookType : b.acc = sent[1]}

LEMMA Hit ==
    ASSUME RInv, server = "serve", client # "done", choice = DELETE
    PROVE  /\ Hits = {k \in Places : Books[k] \in Numbered}
           /\ Wanted(shelf, sent[1]) = In(shelf, Numbered)
           /\ Hits # {} <=> \E k \in DOMAIN shelf : shelf[k].acc = sent[1]
<1>1. /\ shelf = Listed /\ shelf \in Seq(BookType) /\ asked = DELETE /\ got[1] = sent[1]
  <2>1. /\ shelf = Listed /\ choice = asked /\ Len(got) = Len(Fields(asked))
        /\ shelf \in Seq(BookType)
        /\ \A k \in 1..Len(got) : got[k] = sent[k]
    BY Serving
  <2>2. Len(got) = 1
    BY <2>1, FieldsOf
  <2> QED BY <2>1, <2>2
<1>2. /\ Books \in Seq(BookType) /\ DOMAIN Books = 1..Len(database)
      /\ DOMAIN database = 1..Len(database) /\ Places \subseteq 1..Len(database)
      /\ \A k \in 1..Len(database) : Books[k] = database[k].book
  BY BooksTyped DEF RInv
<1>3. Hits = {k \in Places : Books[k] \in Numbered}
  <2>1. \A k \in 1..Len(database) : Books[k] \in BookType
    BY <1>2
  <2>2. \A k \in Places : Books[k] \in Numbered <=> database[k].book.acc = got[1]
    BY <1>1, <1>2, <2>1 DEF Numbered
  <2>3. \A k : k \in Hits <=> k \in Places /\ database[k].book.acc = got[1]
    BY DEF Hits, Places
  <2> QED BY <2>2, <2>3
<1>4. \A k \in DOMAIN shelf : shelf[k] \in Numbered <=> shelf[k].acc = sent[1]
  <2>1. \A k \in DOMAIN shelf : shelf[k] \in BookType
    BY <1>1
  <2> QED BY <2>1 DEF Numbered
<1>5. Wanted(shelf, sent[1]) = In(shelf, Numbered)
  BY <1>4 DEF Wanted, In
<1>6. In(Listed, Numbered) # {} <=> \E k \in Places : k \in DOMAIN Books /\ Books[k] \in Numbered
  BY <1>2, PickedHas DEF Listed
<1>7. Hits # {} <=> In(shelf, Numbered) # {}
  <2>1. Hits # {} <=> \E k \in Places : Books[k] \in Numbered
    BY <1>3
  <2>2. \A k \in Places : k \in DOMAIN Books
    BY <1>2
  <2> QED BY <1>1, <1>6, <2>1, <2>2
<1>8. In(shelf, Numbered) # {} <=> \E k \in DOMAIN shelf : shelf[k].acc = sent[1]
  BY <1>4 DEF In
<1> QED BY <1>3, <1>5, <1>7, <1>8

LEMMA DeleteMissingShelf ==
    ASSUME RInv, client # "done", DeleteMissing
    PROVE  ShelfOK'
<1>1. PICK reply : reply = [kind |-> "not_found"]
  OBVIOUS
<1>2. /\ server = "serve" /\ choice = DELETE /\ Reply(DELETE, reply) /\ Hits = {}
      /\ UNCHANGED database
  BY <1>1 DEF DeleteMissing, Reply
<1>3. shelf = Listed /\ asked = DELETE
  BY <1>2, Serving
<1>4. Told(reply) = shelf
  BY <1>1 DEF Told
<1>5. Agrees(reply)
  <2>1. ~ \E k \in DOMAIN shelf : shelf[k].acc = sent[1]
    BY <1>2, Hit
  <2>2. reply.kind # "deleted"
    BY <1>1
  <2> QED BY <1>3, <2>1, <2>2 DEF Agrees
<1> QED BY <1>2, <1>3, <1>4, <1>5, Answered, Unchanged

LEMMA DeleteShelf ==
    ASSUME RInv, client # "done", Delete
    PROVE  ShelfOK'
<1> DEFINE q == First(Hits)
<1>1. PICK reply : reply = [kind |-> "deleted"]
  OBVIOUS
<1>2. /\ server = "serve" /\ choice = DELETE /\ Reply(DELETE, reply) /\ Hits # {}
      /\ database' = [database EXCEPT ![q].is_deleted = TRUE]
  BY <1>1 DEF Delete, Reply
<1>3. shelf = Listed /\ asked = DELETE /\ shelf \in Seq(BookType)
  BY <1>2, Serving
<1>4. /\ Hits = {k \in Places : Books[k] \in Numbered}
      /\ Wanted(shelf, sent[1]) = In(shelf, Numbered)
      /\ \E k \in DOMAIN shelf : shelf[k].acc = sent[1]
  BY <1>2, Hit
<1>5. /\ Books \in Seq(BookType) /\ DOMAIN Books = 1..Len(database)
      /\ DOMAIN database = 1..Len(database) /\ Places \subseteq 1..Len(database)
      /\ Len(database) \in Nat /\ Len(Books) = Len(database)
      /\ \A k \in 1..Len(database) : Books[k] = database[k].book
  BY BooksTyped DEF RInv
<1>6. q \in Hits /\ \A k \in Hits : q <= k
  <2>1. Hits \in SUBSET Nat
    <3>1. Hits \subseteq Places /\ Places \subseteq 1..Len(database)
      BY <1>4, <1>5
    <3>2. 1..Len(database) \subseteq Nat
      BY <1>5
    <3> QED BY <3>1, <3>2
  <2> QED BY <1>2, <2>1, FirstOf
<1> HIDE DEF q
<1>7. q \in Places /\ q \in 1..Len(database) /\ Books[q] \in Numbered
  BY <1>4, <1>5, <1>6
<1>8. DOMAIN database' = DOMAIN database
      /\ \A k \in 1..Len(database) :
            database'[k] = IF k = q THEN [database[q] EXCEPT !.is_deleted = TRUE] ELSE database[k]
  BY <1>2, <1>5, <1>7
<1>9. database[q] = [book |-> database[q].book, is_deleted |-> database[q].is_deleted]
  <2> DEFINE Had == Typed \cup {Initially[k] : k \in DOMAIN Initially}
         Entry == [book : Had, is_deleted : BOOLEAN]
  <2>1. database \in Seq(Entry)
    BY DEF RInv, IInv, Sizes
  <2> HIDE DEF Entry
  <2>2. database[q] \in Entry
    BY <1>7, <2>1
  <2> HIDE DEF Had
  <2> QED BY <2>2 DEF Entry
<1>10. database'[q].book = database[q].book /\ database'[q].is_deleted
  <2>1. database'[q] = [database[q] EXCEPT !.is_deleted = TRUE]
    BY <1>7, <1>8
  <2> DEFINE d == database[q]
  <2>2. d = [book |-> d.book, is_deleted |-> d.is_deleted]
    BY <1>9
  <2> HIDE DEF d
  <2>3. [d EXCEPT !.is_deleted = TRUE].book = d.book /\ [d EXCEPT !.is_deleted = TRUE].is_deleted
    BY <2>2
  <2> QED BY <2>1, <2>3 DEF d
<1>11. Books' = Books
  <2>1. \A k \in 1..Len(database) : database'[k].book = database[k].book
    BY <1>8, <1>10
  <2>2. /\ Books = [k \in 1..Len(database) |-> database[k].book]
        /\ Books' = [k \in 1..Len(database) |-> database'[k].book]
    BY <1>5, <1>8 DEF Books
  <2> QED BY <2>1, <2>2
<1>12. Places' = Places \ {q}
  <2>1. /\ Places = {k \in 1..Len(database) : ~database[k].is_deleted}
        /\ Places' = {k \in 1..Len(database) : ~database'[k].is_deleted}
    BY <1>5, <1>8 DEF Places, Active
  <2>2. \A k \in 1..Len(database) : k # q => database'[k] = database[k]
    BY <1>8
  <2> QED BY <1>10, <2>1, <2>2
<1>13. Picked(Listed, DOMAIN Listed \ {First(In(Listed, Numbered))}) = Picked(Books, Places \ {q})
  <2>1. \A k \in Places : k \in DOMAIN Books /\ Books[k] \in Numbered => q <= k
    BY <1>4, <1>6
  <2>2. q \in Places /\ q \in 1..Len(Books) /\ Books[q] \in Numbered /\ Books \in Seq(BookType)
    BY <1>5, <1>7
  <2> QED BY <2>1, <2>2, PickedWithout DEF Listed
<1>14. Listed' = Picked(Books, Places \ {q})
  BY <1>11, <1>12 DEF Listed, Picked
<1>15. Told(reply) = Picked(shelf, DOMAIN shelf \ {First(Wanted(shelf, sent[1]))})
  BY <1>1 DEF Told
<1>16. Told(reply) = Listed'
  BY <1>3, <1>4, <1>13, <1>14, <1>15
<1>17. Agrees(reply)
  <2>1. reply.kind = "deleted"
    BY <1>1
  <2> QED BY <1>3, <1>4, <2>1 DEF Agrees
<1> QED BY <1>2, <1>16, <1>17, Answered

LEMMA ServeReplies ==
    ASSUME RInv, Serve
    PROVE  ValuesOK' /\ ShelfOK'
<1>1. /\ server = "serve" /\ server' = "choice" /\ UNCHANGED <<wire, client>>
  BY DEF Serve, Insert, InsertFull, Delete, DeleteMissing, Display, Search, Reply, clientVars
<1>2. wire = <<>> /\ Len(<<>>) = 0
  BY <1>1 DEF RInv, IInv, Protocol, ServeOK
<1>3. ValuesOK'
  BY <1>1, <1>2 DEF ValuesOK, ReadingField
<1>4. CASE client # "done"
  BY <1>3, <1>4, InsertShelf, InsertFullShelf, DeleteShelf, DeleteMissingShelf, DisplayShelf,
     SearchShelf DEF Serve
<1>5. CASE client = "done"
  BY <1>1, <1>3, <1>5 DEF ShelfOK
<1> QED BY <1>4, <1>5

LEMMA ReadReplyReplies ==
    ASSUME RInv, ReadReply
    PROVE  ValuesOK' /\ ShelfOK'
<1>1. /\ client = "waiting" /\ replies # <<>> /\ shelf' = Told(Head(replies))
      /\ replies' = Tail(replies) /\ UNCHANGED <<database, server, wire, got, sent>>
  BY DEF ReadReply, serverVars
<1>2. IInv /\ server = "choice" /\ wire = <<>> /\ Len(<<>>) = 0
  BY <1>1, ReplyAlone DEF RInv
<1>3. ValuesOK'
  BY <1>1, <1>2 DEF ValuesOK, ReadingField
<1>4. Head(replies) = replies[1] /\ Tail(replies) = <<>>
  <2>1. replies = <<replies[1]>>
    BY <1>1, <1>2 DEF IInv, SequencesOK
  <2>2. \A r : Tail(<<r>>) = <<>> /\ Head(<<r>>) = r
    OBVIOUS
  <2> QED BY <2>1, <2>2, Zenon
<1>5. Told(replies[1]) = Listed
  BY <1>1 DEF RInv, ShelfOK
<1>6. shelf' = Listed' /\ replies' = <<>>
  BY <1>1, <1>4, <1>5, Unchanged
<1> QED BY <1>3, <1>6 DEF ShelfOK

(* Steps that neither send a reply nor read one, nor touch the books.      *)
LEMMA ShelfKept ==
    ASSUME RInv, UNCHANGED <<database, shelf, replies>>, client # "done" => replies = <<>>,
           client' # "done" => client # "done"
    PROVE  ShelfOK'
BY Unchanged DEF RInv, ShelfOK

LEMMA RepliesNext == RInv /\ [Next]_vars => RInv'
<1> SUFFICES ASSUME RInv, [Next]_vars PROVE ValuesOK' /\ ShelfOK'
  BY InvNext DEF RInv
<1>1. IInv /\ ValuesOK
  BY DEF RInv
<1>2. client # "done" /\ client # "waiting" => replies = <<>>
  BY <1>1, ReplyAlone
<1>3. CASE ReadChoice
  <2>1. server = "choice" /\ wire # <<>> /\ UNCHANGED <<database, shelf, replies, client>>
    BY <1>3 DEF ReadChoice, clientVars
  <2>2. client # "done" => replies = <<>>
    BY <1>1, <2>1, ReplyAlone
  <2> QED BY <1>1, <1>3, <2>1, <2>2, ReadChoiceValues, ShelfKept
<1>4. CASE Disconnected \/ FieldUnread
  <2>1. client' = "done"
    BY <1>4 DEF Disconnected, FieldUnread, TakeField, clientVars
  <2> QED BY <2>1 DEF ValuesOK, ShelfOK
<1>5. CASE ReadField
  <2>1. ReadingField /\ UNCHANGED <<database, shelf, replies, client>>
    BY <1>5 DEF ReadField, TakeField, clientVars
  <2>2. client # "done" => replies = <<>>
    BY <1>1, <2>1 DEF IInv, Protocol, ReadingOK
  <2> QED BY <1>1, <1>5, <2>1, <2>2, ReadFieldValues, ShelfKept
<1>6. CASE Serve
  BY <1>6, ServeReplies
<1>7. CASE ReadReply
  BY <1>7, ReadReplyReplies
<1>8. CASE Interrupt
  <2>1. client' = "done"
    BY <1>8 DEF Interrupt
  <2> QED BY <2>1 DEF ValuesOK, ShelfOK
<1>9. ASSUME NEW op \in Operations, Choose(op)
      PROVE  ValuesOK' /\ ShelfOK'
  <2>1. client = "menu" /\ UNCHANGED <<database, shelf, replies>>
    BY <1>9 DEF Choose, serverVars
  <2> QED BY <1>1, <1>2, <1>9, <2>1, ChooseValues, ShelfKept
<1>10. ASSUME NEW field \in {"book", "acc", "type", "term"}, NEW value \in Values(field),
              WriteField(field, value)
       PROVE  ValuesOK' /\ ShelfOK'
  <2>1. client = "typing" /\ UNCHANGED <<database, shelf, replies>>
    BY <1>10 DEF WriteField, serverVars
  <2>2. ValuesOK'
    BY <1>1, <1>10, WriteFieldValues
  <2> QED BY <1>2, <2>1, <2>2, ShelfKept
<1>11. CASE UNCHANGED vars
  <2>1. UNCHANGED <<database, server, got, wire, replies, client, asked, sent, shelf>>
    BY <1>11 DEF vars, serverVars, clientVars
  <2>2. ValuesOK'
    BY <1>1, <2>1 DEF ValuesOK, ReadingField
  <2>3. Listed' = Listed
    BY <2>1, Unchanged
  <2>4. Told(replies[1])' = Told(replies[1])
    BY <2>1, Zenon DEF Told, Wanted
  <2>5. Agrees(replies[1])' <=> Agrees(replies[1])
    BY <2>1, Zenon DEF Agrees, Matches
  <2>6. ShelfOK'
    BY <2>1, <2>3, <2>4, <2>5 DEF RInv, ShelfOK
  <2> QED BY <2>2, <2>6
<1> QED
  BY <1>3, <1>4, <1>5, <1>6, <1>7, <1>8, <1>9, <1>10, <1>11 DEF Next, ServerStep

LEMMA RepliesInit == Init => RInv
<1> SUFFICES ASSUME Init PROVE ValuesOK /\ ShelfOK
  BY InvInit DEF RInv
<1>1. /\ database = [k \in DOMAIN Initially |-> Stored(Initially[k])]
      /\ server = "choice" /\ got = <<>> /\ wire = <<>> /\ replies = <<>> /\ shelf = Initially
  BY DEF Init
<1>2. ValuesOK
  <2>1. Len(wire) = 0
    BY <1>1
  <2> QED BY <1>1, <2>1 DEF ValuesOK, ReadingField
<1>3. Initially \in Seq(BookType) /\ DOMAIN Initially = 1..Len(Initially) /\ Len(Initially) \in Nat
  BY BooksAssumption
<1>4. /\ DOMAIN database = 1..Len(Initially)
      /\ \A k \in 1..Len(Initially) : database[k].book = Initially[k] /\ ~database[k].is_deleted
  BY <1>1, <1>3 DEF Stored
<1>5. Books = Initially
  <2>1. Books = [k \in 1..Len(Initially) |-> Initially[k]]
    BY <1>4 DEF Books
  <2>2. Initially = [k \in 1..Len(Initially) |-> Initially[k]]
    BY <1>3
  <2> QED BY <2>1, <2>2, Zenon
<1>6. Places = 1..Len(Initially)
  BY <1>4 DEF Places, Active
<1>7. Picked(Initially, 1..Len(Initially)) = Initially
  BY <1>3, PickedAll
<1>8. Listed = Initially
  BY <1>5, <1>6, <1>7 DEF Listed
<1> QED BY <1>1, <1>2, <1>8 DEF ShelfOK

(* What the client has been told, with the reply under way, is what the    *)
(* server lists.                                                           *)
THEOREM RepliesInvariant == Spec => []RInv
<1> QED BY RepliesInit, RepliesNext, PTL DEF Spec

(* For every capacity, every set of books and any number of requests: the  *)
(* replies of main's switch never contradict what the client has been told *)
(* before: a display lists the books it knows, in their order, a search    *)
(* those of them that match, and a delete is refused for none of them.     *)
THEOREM RepliesAlwaysAgree == Spec => []RepliesAgree
<1>1. RInv => RepliesAgree
  <2> SUFFICES ASSUME RInv, client = "waiting", replies # <<>>
               PROVE  Agrees(Head(replies))
    BY DEF RepliesAgree, Agrees
  <2>1. Agrees(replies[1])
    BY DEF RInv, ShelfOK
  <2>2. replies = <<replies[1]>>
    BY DEF RInv, IInv, SequencesOK
  <2>3. \A r : Head(<<r>>) = r
    OBVIOUS
  <2>4. Head(replies) = replies[1]
    BY <2>2, <2>3, Zenon
  <2> QED BY <2>1, <2>4
<1> QED BY <1>1, RepliesInvariant, PTL

=============================================================================
