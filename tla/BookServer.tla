----------------------------- MODULE BookServer -----------------------------
(***************************************************************************)
(* Lab04/additional: a server with an array of books and its one client.   *)
(* A request is an operation number followed by the fields the operation   *)
(* needs, each written and read with one fixed size, so a read returns one *)
(* field (of at most 312 bytes, over the loopback address of client.c:38). *)
(***************************************************************************)
EXTENDS Integers, Sequences

CONSTANTS Accession,     \* the accession numbers users type
          Term,          \* the words of titles and authors
          Initially,     \* the books of add_dummy_data
          Typed,         \* the books users insert
          MAX_BOOKS,     \* capacity of the array
          MaxRequests    \* bound on the requests of the client

BookType == [acc : Nat, title : SUBSET Term, author : SUBSET Term]

ASSUME CapacityAssumption == MAX_BOOKS \in Nat /\ Len(Initially) <= MAX_BOOKS
ASSUME BooksAssumption == /\ Accession \subseteq Nat
                          /\ Typed \subseteq BookType
                          /\ Initially \in Seq(BookType)
ASSUME MaxRequestsAssumption == MaxRequests \in Nat

VARIABLES database,   \* the array up to book_count, each book with is_deleted
          server,     \* "choice", the field it waits for, "serve" or "exited"
          choice,     \* the operation it serves
          got,        \* the fields it has read for it, in order
          wire,       \* fields on their way to the server
          replies,    \* replies on their way to the client
          client,     \* "menu", "typing", "waiting" or "done"
          asked,      \* the operation the user chose last
          sent,       \* the fields the user has sent for it
          requests,   \* operations chosen so far (bounds the model)
          shelf       \* history: the books the client has been told are there

serverVars == <<database, server, choice, got>>
clientVars == <<client, asked, sent, requests, shelf>>
vars == <<serverVars, clientVars, wire, replies>>

INSERT == 1   DELETE == 2   DISPLAY == 3   SEARCH == 4   EXIT == 5
INVALID == 6      \* any other number

Operations == {INSERT, DELETE, DISPLAY, SEARCH, EXIT, INVALID}

Fields(op) ==
    CASE op = INSERT -> <<"book">>
      [] op = DELETE -> <<"acc">>
      [] op = SEARCH -> <<"type", "term">>
      [] op \notin {INSERT, DELETE, SEARCH} -> <<>>

(* 1 searches titles, 2 authors, any other number nothing. *)
Values(field) ==
    CASE field = "book" -> Typed
      [] field = "acc"  -> Accession
      [] field = "type" -> 1..3
      [] field = "term" -> Term

(* The elements of s at the places in K, in the order of s. *)
Picked(s, K) ==
    LET picked[k \in 0..Len(s)] ==
            IF k = 0 THEN <<>>
            ELSE IF k \in K THEN Append(picked[k - 1], s[k]) ELSE picked[k - 1]
    IN picked[Len(s)]

First(K) == CHOOSE k \in K : \A j \in K : k <= j

Message(field, value) == [field |-> field, value |-> value]
Stored(book) == [book |-> book, is_deleted |-> FALSE]

Init ==
    /\ database = [k \in DOMAIN Initially |-> Stored(Initially[k])]
    /\ server = "choice"
    /\ choice = 0
    /\ got = <<>>
    /\ wire = <<>> /\ replies = <<>>
    /\ client = "menu"
    /\ asked = 0
    /\ sent = <<>>
    /\ requests = 0
    /\ shelf = Initially

-----------------------------------------------------------------------------
(* The client. *)
Choose(op) ==
    /\ client = "menu" /\ requests < MaxRequests
    /\ requests' = requests + 1
    /\ asked' = op
    /\ sent' = <<>>
    /\ wire' = Append(wire, Message("choice", op))
    /\ client' = IF op = EXIT THEN "done"
                 ELSE IF Fields(op) = <<>> THEN "waiting" ELSE "typing"
    /\ UNCHANGED <<serverVars, replies, shelf>>

WriteField(field, value) ==
    /\ client = "typing"
    /\ field = Fields(asked)[Len(sent) + 1]
    /\ wire' = Append(wire, Message(field, value))
    /\ sent' = Append(sent, value)
    /\ client' = IF Len(sent') = Len(Fields(asked)) THEN "waiting" ELSE "typing"
    /\ UNCHANGED <<serverVars, replies, asked, requests, shelf>>

Wanted(list, acc) == {k \in DOMAIN list : list[k].acc = acc}

(* What the user concludes from a reply. *)
Told(reply) ==
    CASE reply.kind = "inserted" -> Append(shelf, sent[1])
      [] reply.kind = "deleted"  ->
             Picked(shelf, DOMAIN shelf \ {First(Wanted(shelf, sent[1]))})
      [] reply.kind \notin {"inserted", "deleted"} -> shelf

ReadReply ==
    /\ client = "waiting" /\ replies # <<>>
    /\ shelf' = Told(Head(replies))
    /\ replies' = Tail(replies)
    /\ client' = "menu"
    /\ UNCHANGED <<serverVars, wire, asked, sent, requests>>

Interrupt ==
    /\ client # "done"
    /\ client' = "done"
    /\ UNCHANGED <<serverVars, wire, replies, asked, sent, requests, shelf>>

-----------------------------------------------------------------------------
(* The server. *)
AwaitingSwapped(op, n) ==       \* the term read before the type
    IF n < Len(Fields(op)) THEN Fields(op)[Len(Fields(op)) - n] ELSE "serve"

Awaiting(op, n) == IF n < Len(Fields(op)) THEN Fields(op)[n + 1] ELSE "serve"

(* An operation number the switch does not know is passed over in silence. *)
ReadChoice ==
    /\ server = "choice" /\ wire # <<>>
    /\ choice' = Head(wire).value
    /\ wire' = Tail(wire)
    /\ got' = <<>>
    /\ server' = CASE choice' = EXIT -> "exited"
                   [] choice' = INVALID -> "choice"
                   [] choice' \notin {EXIT, INVALID} -> Awaiting(choice', 0)
    /\ UNCHANGED <<database, replies, clientVars>>

Disconnected ==
    /\ server = "choice" /\ wire = <<>> /\ client = "done"
    /\ server' = "exited"
    /\ UNCHANGED <<database, choice, got, wire, replies, clientVars>>

TakeField(value) ==
    /\ got' = Append(got, value)
    /\ server' = Awaiting(choice, Len(got) + 1)
    /\ UNCHANGED <<database, choice, replies, clientVars>>

ReadingField == server \notin {"choice", "serve", "exited"}

ReadField ==
    /\ ReadingField /\ wire # <<>>
    /\ wire' = Tail(wire)
    /\ TakeField(Head(wire).value)

(* The reads of the fields are not checked: at end of file the variable    *)
(* keeps whatever the stack held, which can be any value.                  *)
FieldUnread ==
    /\ ReadingField /\ wire = <<>> /\ client = "done"
    /\ \E value \in Values(server) : TakeField(value)
    /\ UNCHANGED wire

Reply(op, reply) ==
    /\ server = "serve" /\ choice = op
    /\ replies' = Append(replies, reply)
    /\ server' = "choice"
    /\ UNCHANGED <<choice, got, wire, clientVars>>

InsertAlways ==         \* book_count not compared with MAX_BOOKS
    /\ Reply(INSERT, [kind |-> "inserted"])
    /\ database' = Append(database, Stored(got[1]))

Insert ==
    /\ Reply(INSERT, [kind |-> "inserted"])
    /\ Len(database) < MAX_BOOKS
    /\ database' = Append(database, Stored(got[1]))

InsertFull ==
    /\ Reply(INSERT, [kind |-> "full"])
    /\ Len(database) >= MAX_BOOKS
    /\ UNCHANGED database

Active(k) == ~database[k].is_deleted
Hits == {k \in DOMAIN database : Active(k) /\ database[k].book.acc = got[1]}

DeleteAll ==            \* break left out
    /\ Reply(DELETE, [kind |-> "deleted"])
    /\ Hits # {}
    /\ database' = [k \in DOMAIN database |->
                       IF k \in Hits THEN [database[k] EXCEPT !.is_deleted = TRUE]
                                     ELSE database[k]]

Delete ==
    /\ Reply(DELETE, [kind |-> "deleted"])
    /\ Hits # {}
    /\ database' = [database EXCEPT ![First(Hits)].is_deleted = TRUE]

DeleteSilent ==         \* no reply for a book that is not there
    /\ server = "serve" /\ choice = DELETE /\ Hits = {}
    /\ server' = "choice"
    /\ UNCHANGED <<database, choice, got, wire, replies, clientVars>>

DeleteMissing ==
    /\ Reply(DELETE, [kind |-> "not_found"])
    /\ Hits = {}
    /\ UNCHANGED database

Books == [k \in DOMAIN database |-> database[k].book]
Places == {k \in DOMAIN database : Active(k)}
Listed == Picked(Books, Places)

Display ==
    /\ Reply(DISPLAY, [kind |-> "list", books |-> Listed])
    /\ UNCHANGED database

Matches(book, type, term) ==
    (type = 1 /\ term \in book.title) \/ (type = 2 /\ term \in book.author)

Search ==
    /\ Reply(SEARCH, [kind |-> "list",
                      books |-> Picked(Books, {k \in Places : Matches(Books[k], got[1], got[2])})])
    /\ UNCHANGED database

-----------------------------------------------------------------------------
Serve == Insert \/ InsertFull \/ Delete \/ DeleteMissing \/ Display \/ Search
ServerStep == ReadChoice \/ Disconnected \/ ReadField \/ FieldUnread \/ Serve

Next ==
    \/ ServerStep \/ ReadReply \/ Interrupt
    \/ \E op \in Operations : Choose(op)
    \/ \E field \in {"book", "acc", "type", "term"} :
           \E value \in Values(field) : WriteField(field, value)

(* The server runs and a reply that has arrived is read; the user need not *)
(* type.                                                                   *)
Spec == Init /\ [][Next]_vars /\ WF_vars(ServerStep) /\ WF_vars(ReadReply)

-----------------------------------------------------------------------------
Holds(field, value) == value \in IF field = "choice" THEN Operations ELSE Values(field)

TypeOK ==
    /\ database \in Seq([book : Typed \cup {Initially[k] : k \in DOMAIN Initially},
                         is_deleted : BOOLEAN])
    /\ Len(database) <= MAX_BOOKS
    /\ server \in {"choice", "book", "acc", "type", "term", "serve", "exited"}
    /\ choice \in Operations \cup {0}
    /\ \A k \in DOMAIN got : Holds(Fields(choice)[k], got[k])
    /\ \A k \in DOMAIN wire : Holds(wire[k].field, wire[k].value)
    /\ Len(replies) <= 1
    /\ client \in {"menu", "typing", "waiting", "done"}
    /\ requests \in 0..MaxRequests

(* Client and server stay in step: the field the server is about to take   *)
(* off the connection is the field the client wrote, never a part of the   *)
(* next request or the next part of this one.                              *)
FieldsInStep ==
    wire # <<>> /\ (server = "choice" \/ ReadingField) => Head(wire).field = server

(* Both: the array never outgrows MAX_BOOKS either, and the server never   *)
(* has more than one reply outstanding.                                    *)
ServerInStep == TypeOK /\ FieldsInStep

(* What a reply must say, by what the client knows.                        *)
Agrees(reply) ==
    CASE asked = INSERT  -> reply.kind \in {"inserted", "full"}
      [] asked = DELETE  -> reply.kind = "deleted"
                               <=> \E k \in DOMAIN shelf : shelf[k].acc = sent[1]
      [] asked = DISPLAY -> reply.books = shelf
      [] asked = SEARCH  ->
             reply.books = Picked(shelf, {k \in DOMAIN shelf :
                                             Matches(shelf[k], sent[1], sent[2])})

(* Every reply agrees with what the client has been told before: a display *)
(* lists exactly the books it knows to be there, in the order in which     *)
(* they were inserted, a search those of them that match, and a delete is  *)
(* refused only for an accession number none of them has.                  *)
RepliesAgree == client = "waiting" /\ replies # <<>> => Agrees(Head(replies))

(* The client is not left in its read: whatever the menu offers is         *)
(* answered, a failing operation with a reply of its own (an operation     *)
(* number off the menu is not).                                            *)
RequestAnswered == client = "waiting" /\ asked # INVALID ~> client # "waiting"
=============================================================================
