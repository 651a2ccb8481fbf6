------------------------------ MODULE Session ------------------------------
(***************************************************************************)
(* A connection of the client API and its sessions in the server: how one  *)
(* request at a time is sent, framed, executed and answered                *)
(* (src/src/api/impl/connection.cpp, the execute of src/src/api/api.cpp,   *)
(* and process, respond and serve of src/src/service/server/service.cpp).  *)
(*                                                                         *)
(* A message is a sequence of cells.  A cell stands for some of its bytes; *)
(* the first Header cells hold the length of the document.  TCP delivers   *)
(* the cells in order and may cut them into pieces anywhere; a connection  *)
(* can break at any time, with the loss of what is on its way.  A break is *)
(* the crash of the server too, since a session keeps nothing else.        *)
(***************************************************************************)
EXTENDS Integers, Sequences

CONSTANTS Calls,        \* number of calls of api::execute
          RequestSize,  \* cells of the request of each call
          ReplySize,    \* and of its reply
          Header,       \* cells that tell the size: 5 bytes in the code
          ServerBuf,    \* cells that the server reads at once: 1024 bytes
          ClientBuf,    \* cells that the client reads at once: 4096 bytes
          Sessions,     \* bound: connections that are made
          MaxBreaks,    \* bound: connections that break
          MaxStray      \* bound: the size that a stray header may announce

ASSUME SessionAssumption ==
  /\ {Calls, Header, ServerBuf, ClientBuf, Sessions, MaxBreaks, MaxStray} \subseteq Nat
  /\ RequestSize \in [1..Calls -> Nat] /\ ReplySize \in [1..Calls -> Nat]
  /\ \A c \in 1..Calls : RequestSize[c] >= Header /\ ReplySize[c] >= Header
  /\ 0 < Header /\ Header <= ServerBuf /\ ServerBuf <= ClientBuf

VARIABLES
  \* the client
  pc,        \* where the call in progress is; "idle" between calls
  call,      \* the number of the last call
  valid,     \* the pool has a connection object, which says it is valid
  sock,      \* the session that its socket is connected to, 0 when closed
  buffer,    \* its streambuf
  outcome,   \* what each call has returned
  \* the network and the server
  alive,     \* alive[s]: the connection of session s is up
  up, down,  \* cells on their way to the server, and to the client
  session,   \* session[s]: where it is, the cells and the size it has read, its answer
  executed,  \* how often each request was executed
  \* history
  breaks,    \* connections that broke
  sessions,  \* connections made
  dirty,     \* this connection object had a call that threw, or a torn request
  tainted    \* the calls made on a dirty connection

client == <<pc, call, valid, sock, buffer, outcome>>
server == <<session, executed>>
vars == <<client, alive, up, down, server, breaks, sessions, dirty, tainted>>

Request(c) == <<"request", c>>
Reply(c) == <<"reply", c>>
NotBson == <<"notBson", 0>>       \* the error for what is not a document
Mixed == <<"mixed", 0>>           \* a request, and its reply, made of two
Invalid == <<"invalid", 0>>       \* not a document

\* What a call returns that has no document.
None == <<"none", 0>>
Failed == <<"failed", 0>>
Thrown == <<"thrown", 0>>
NoDocument == {None, Failed, Thrown}
Messages == ({"request", "reply"} \X (1..Calls)) \union {NotBson, Mixed}

Size(m) == CASE m[1] = "request" -> RequestSize[m[2]]
             [] m[1] = "reply" -> ReplySize[m[2]]
             [] OTHER -> Header
Cells(m) == [i \in 1..Size(m) |-> <<m, i>>]
Cell == Messages \X Nat
Answers == {m \in Messages : m[1] # "request"}

\* The first cells are the header of a message.
Aligned(cells) ==
  /\ Len(cells) >= Header
  /\ \A i \in 1..Header : cells[i] = <<cells[1][1], i>>

\* documentSize(): what the first bytes announce.  Fewer than five are taken for
\* a message of that size; other bytes than a header announce anything (the client's
\* choice is made anew at each piece, which allows more than the code does).
Announced(cells) ==
  IF Len(cells) < Header THEN {Len(cells)}
  ELSE IF Aligned(cells) THEN {Size(cells[1][1])}
  ELSE 0..MaxStray

\* bsoncxx::validate on the first n cells.  The server may hand on more cells than
\* it has read: the rest is what was in that memory, nothing or the end of another
\* request.
Document(cells, n) ==
  IF n <= Len(cells) /\ n > 0 /\ SubSeq(cells, 1, n) = Cells(cells[1][1]) THEN {cells[1][1]}
  ELSE IF n > Len(cells) /\ Aligned(cells) THEN {Invalid, Mixed}
  ELSE {Invalid}

\* What a read of at most max cells may return.
Pieces(cells, max) == {n \in 1..Len(cells) : n <= max}
After(cells, n) == SubSeq(cells, n + 1, Len(cells))

Fresh == [at |-> "none", got |-> <<>>, need |-> 0, answer |-> NotBson]
Reading == [Fresh EXCEPT !.at = "read"]

Init ==
  /\ pc = "idle" /\ call = 0 /\ valid = FALSE /\ sock = 0 /\ buffer = <<>>
  /\ outcome = [c \in 1..Calls |-> None]
  /\ alive = [s \in 1..Sessions |-> FALSE]
  /\ up = [s \in 1..Sessions |-> <<>>]
  /\ down = [s \in 1..Sessions |-> <<>>]
  /\ session = [s \in 1..Sessions |-> Fresh]
  /\ executed = [c \in 1..Calls |-> 0]
  /\ breaks = 0 /\ sessions = 0 /\ dirty = FALSE /\ tainted = {}
-----------------------------------------------------------------------------
(***************************************************************************)
(* The client                                                              *)
(***************************************************************************)
\* connect() succeeds: the listener accepts and starts a session.
Connected ==
  /\ sessions < Sessions
  /\ sessions' = sessions + 1
  /\ sock' = sessions'
  /\ alive' = [alive EXCEPT ![sessions'] = TRUE]
  /\ session' = [session EXCEPT ![sessions'] = Reading]

Taint == tainted' = IF dirty' THEN tainted \union {call} ELSE tainted

\* The call returns r, or an exception.
Ends(r) == pc' = "idle" /\ outcome' = [outcome EXCEPT ![call] = r] /\ Taint

\* The socket is closed; its session sees the end of the stream.  Mutant: not closed.
LeftOpen == alive' = [alive EXCEPT ![sock] = FALSE] /\ UNCHANGED <<sock, down>>

Closed ==
  /\ sock' = 0
  /\ alive' = [alive EXCEPT ![sock] = FALSE]
  /\ down' = [down EXCEPT ![sock] = <<>>]

\* api::execute acquires the connection of the pool, or has one made, and
\* Connection::execute writes the request to the end of its buffer.
Begin ==
  /\ pc = "idle" /\ call < Calls
  /\ call' = call + 1
  /\ \/ /\ valid /\ pc' = "send"
        /\ buffer' = buffer \o Cells(Request(call'))
        /\ UNCHANGED <<valid, sock, outcome, alive, session, sessions, dirty, tainted>>
     \/ /\ ~ valid /\ pc' = "send" /\ valid' = TRUE /\ Connected /\ dirty' = FALSE
        /\ buffer' = Cells(Request(call'))
        /\ UNCHANGED <<outcome, tainted>>
     \/ /\ ~ valid   \* the constructor throws
        /\ outcome' = [outcome EXCEPT ![call'] = Thrown]
        /\ UNCHANGED <<pc, valid, sock, buffer, alive, session, sessions, dirty, tainted>>
  /\ UNCHANGED <<up, down, executed, breaks>>

\* socket() opens a socket that was closed, or throws: then the buffer keeps the
\* request and the pool gets the connection back as a valid one.
Reopen ==
  /\ pc \in {"send", "resend"} /\ sock = 0
  /\ \/ Connected /\ UNCHANGED <<pc, outcome, dirty, tainted>>
     \/ /\ dirty' = TRUE /\ Ends(Thrown)
        /\ UNCHANGED <<sock, alive, session, sessions>>
  /\ UNCHANGED <<call, valid, buffer, up, down, executed, breaks>>

\* send() hands over the whole buffer.  On a broken connection it may still do so,
\* or fail: the first time the socket is closed and opened again, the second time
\* nothing is taken out of the buffer.
Send ==
  /\ pc \in {"send", "resend"} /\ sock # 0
  /\ \/ /\ buffer' = <<>> /\ pc' = "receive"
        /\ up' = IF alive[sock] THEN [up EXCEPT ![sock] = @ \o buffer] ELSE up
        /\ UNCHANGED <<sock, alive, down>>
     \/ /\ ~ alive[sock] /\ pc = "send"
        /\ pc' = "resend" /\ Closed /\ UNCHANGED <<buffer, up>>
     \/ /\ ~ alive[sock] /\ pc = "resend"
        /\ pc' = "receive" /\ UNCHANGED <<sock, buffer, alive, up, down>>
  /\ UNCHANGED <<call, valid, outcome, server, breaks, sessions, dirty, tainted>>

\* buffer.consume( buffer.size() ) at the end of execute().  Mutant: left out.
NotEmptied(got) == buffer' = got
Emptied(got) == buffer' = <<>>

\* setValid( false ) of api::execute, which has the pool destroy the connection.
\* Mutant: left out.
KeptValid == UNCHANGED <<valid, sock, alive>>
Invalidated == valid' = FALSE /\ sock' = 0 /\ alive' = [alive EXCEPT ![sock] = FALSE]

\* The reply is complete: a document is returned; for anything else there is none,
\* and api::execute makes the connection invalid, which closes it.
Return(got, n) ==
  /\ Emptied(got)
  /\ \E m \in Document(got, n) :
       IF m = Invalid
       THEN Ends(Failed) /\ Invalidated
       ELSE Ends(m) /\ UNCHANGED <<valid, sock, alive>>

\* receive() has cells; the first of the buffer tell how many are to come.
Receive ==
  /\ pc \in {"receive", "rest"} /\ UNCHANGED dirty
  /\ \E n \in Pieces(down[sock], ClientBuf) :
       LET got == buffer \o SubSeq(down[sock], 1, n) IN
       /\ down' = [down EXCEPT ![sock] = After(@, n)]
       /\ \E size \in Announced(got) :
            IF Len(got) >= size
            THEN Return(got, size)
            ELSE /\ pc' = "rest" /\ buffer' = got
                 /\ UNCHANGED <<valid, sock, outcome, alive, tainted>>
  /\ UNCHANGED <<call, up, server, breaks, sessions>>

\* The first receive() fails: the socket is closed and there is no document.
\* Mutant: the request is sent again, as it is after a failed send().
SendsAgain ==
  /\ buffer' = Cells(Request(call)) /\ pc' = "send" /\ Closed
  /\ UNCHANGED <<valid, outcome, dirty, tainted>>
GivesUp == buffer' = <<>> /\ valid' = FALSE /\ Closed /\ UNCHANGED dirty /\ Ends(Failed)

\* receive() finds the connection broken.  The first time that is an error code;
\* in the loop it throws, and what was read stays in the buffer.
ReceiveFails ==
  /\ pc \in {"receive", "rest"} /\ ~ alive[sock] /\ down[sock] = <<>>
  /\ IF pc = "receive"
     THEN GivesUp
     ELSE /\ dirty' = TRUE /\ Ends(Thrown)
          /\ UNCHANGED <<valid, sock, buffer, alive, down>>
  /\ UNCHANGED <<call, up, server, breaks, sessions>>
-----------------------------------------------------------------------------
(***************************************************************************)
(* The server                                                              *)
(***************************************************************************)
\* A read that ends inside a message which the code does not wait for.
Torn(got, size) == Aligned(got) => size <= ServerBuf /\ Len(got) < size

\* respond(), first read: fewer than five bytes are echoed, a document that fits
\* the buffer is handed on, and a larger one is read on.
Read(s) ==
  /\ session[s].at = "read"
  /\ \E n \in Pieces(up[s], ServerBuf) :
       LET got == SubSeq(up[s], 1, n) IN
       \E size \in Announced(got) :
         /\ up' = [up EXCEPT ![s] = After(@, n)]
         /\ dirty' = (dirty \/ (s = sock /\ Torn(got, size)))
         /\ IF size < Header
            THEN /\ session' = session
                 /\ down' = IF alive[s] THEN [down EXCEPT ![s] = @ \o SubSeq(got, 1, size)] ELSE down
            ELSE /\ session' = [session EXCEPT ![s].at = IF size <= ServerBuf THEN "process" ELSE "more",
                                               ![s].got = got, ![s].need = size]
                 /\ UNCHANGED down
  /\ UNCHANGED <<client, alive, executed, breaks, sessions, tainted>>

\* Mutant: the loop waits for more than the size.
MoreThan(got, size) == Len(got) > size
Complete(got, size) == Len(got) = size

\* The loop of respond(): it ends when what was read is the size, not when it is more.
More(s) ==
  /\ session[s].at = "more"
  /\ \E n \in Pieces(up[s], ServerBuf) :
       LET got == session[s].got \o SubSeq(up[s], 1, n) IN
       /\ up' = [up EXCEPT ![s] = After(@, n)]
       /\ session' = [session EXCEPT ![s].got = got,
                                     ![s].at = IF Complete(got, session[s].need) THEN "process" ELSE "more"]
  /\ UNCHANGED <<client, alive, down, executed, breaks, sessions, dirty, tainted>>

\* process(): a request is executed, anything else is answered with an error.
Process(s) ==
  /\ session[s].at = "process"
  /\ \E m \in Document(session[s].got, session[s].need) :
       LET answer == CASE m[1] = "request" -> Reply(m[2]) [] m = Mixed -> Mixed [] OTHER -> NotBson IN
       /\ session' = [session EXCEPT ![s] = [Fresh EXCEPT !.at = "write", !.answer = answer]]
       /\ executed' = IF m[1] = "request" THEN [executed EXCEPT ![m[2]] = @ + 1] ELSE executed
  /\ UNCHANGED <<client, alive, up, down, breaks, sessions, dirty, tainted>>

\* The answer is written.  A failure is caught for a request that was executed, and
\* ends the session for one that was not.
Write(s) ==
  /\ session[s].at = "write"
  /\ IF alive[s]
     THEN /\ down' = [down EXCEPT ![s] = @ \o Cells(session[s].answer)]
          /\ session' = [session EXCEPT ![s] = Reading]
     ELSE /\ UNCHANGED down
          /\ session' = [session EXCEPT ![s] = IF session[s].answer = NotBson THEN Fresh ELSE Reading]
  /\ UNCHANGED <<client, alive, up, executed, breaks, sessions, dirty, tainted>>

\* serve() ends when a read fails.
End(s) ==
  /\ session[s].at \in {"read", "more"} /\ ~ alive[s] /\ up[s] = <<>>
  /\ session' = [session EXCEPT ![s] = Fresh]
  /\ UNCHANGED <<client, alive, up, down, executed, breaks, sessions, dirty, tainted>>

\* A connection breaks and takes with it the end of what is on its way.
Break(s) ==
  /\ alive[s] /\ breaks < MaxBreaks
  /\ breaks' = breaks + 1
  /\ alive' = [alive EXCEPT ![s] = FALSE]
  /\ \E n \in 0..Len(up[s]), k \in 0..Len(down[s]) :
       /\ up' = [up EXCEPT ![s] = SubSeq(@, 1, n)]
       /\ down' = [down EXCEPT ![s] = SubSeq(@, 1, k)]
  /\ UNCHANGED <<client, server, sessions, dirty, tainted>>

\* All calls were made and have returned, or a dirty connection keeps its caller.
Done == ((pc = "idle" /\ call = Calls) \/ dirty) /\ UNCHANGED vars

Client == Begin \/ Reopen \/ Send \/ Receive \/ ReceiveFails
Serve(s) == Read(s) \/ More(s) \/ Process(s) \/ Write(s) \/ End(s)
Next == Client \/ (\E s \in 1..Sessions : Serve(s) \/ Break(s)) \/ Done

Spec == Init /\ [][Next]_vars

\* The calling thread goes on, and so do the io threads of the server.
FairSpec == Spec /\ WF_vars(Client) /\ \A s \in 1..Sessions : WF_vars(Serve(s))
-----------------------------------------------------------------------------
TypeOK ==
  /\ pc \in {"idle", "send", "resend", "receive", "rest"}
  /\ call \in 0..Calls /\ valid \in BOOLEAN /\ sock \in 0..sessions
  /\ sessions \in 0..Sessions /\ buffer \in Seq(Cell)
  /\ outcome \in [1..Calls -> Messages \union NoDocument]
  /\ alive \in [1..Sessions -> BOOLEAN]
  /\ up \in [1..Sessions -> Seq(Cell)] /\ down \in [1..Sessions -> Seq(Cell)]
  /\ session \in [1..Sessions -> [at : {"none", "read", "more", "process", "write"},
                                  got : Seq(Cell), need : Nat, answer : Answers]]
  /\ executed \in [1..Calls -> Nat]
  /\ pc \in {"receive", "rest"} => sock # 0
  /\ ~ valid => sock = 0 /\ buffer = <<>>
  /\ dirty \in BOOLEAN /\ tainted \subseteq 1..Calls

\* No request is executed twice, however often the connection breaks and the
\* request is sent again: a send that fails has sent nothing.
ExecutedOnce == \A c \in 1..Calls : executed[c] <= 1

\* A call whose connection object never had a call that threw, or a request that
\* the server read in part, and which returns a document, has its request executed
\* and gets the reply to it.
RepliesMatch ==
  \A c \in 1..Calls \ tainted :
    outcome[c] \notin NoDocument => outcome[c] = Reply(c) /\ executed[c] = 1

\* Such a connection leaves nothing behind for the next call: no cell in the
\* buffer or on its way, and a session that waits for a request.
QuietBetweenCalls ==
  pc = "idle" /\ valid /\ ~ dirty =>
    /\ buffer = <<>> /\ sock # 0
    /\ up[sock] = <<>> /\ down[sock] = <<>>
    /\ session[sock].at = "read" \/ ~ alive[sock]

\* A call returns, unless its connection is dirty: there is no time limit, so a
\* session that waits for more cells keeps its client for ever.
CallsReturn == \A c \in 1..Calls : (pc # "idle" /\ call = c) ~> (outcome[c] # None \/ dirty)

\* src/src/api/api.hpp:43-45, of ResultType::success, "the command was executed by
\* the service, and a response received": a call that returns the reply to a request
\* has had its own request executed.
SuccessIsExecuted == \A c \in 1..Calls : outcome[c][1] = "reply" => executed[c] = 1
=============================================================================
