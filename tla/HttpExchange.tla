---------------------------- MODULE HttpExchange ----------------------------
(***************************************************************************)
(* One connection between http_request and a thread of HttpServer::run.    *)
(* The stream may be cut into pieces anywhere, so that every recv returns  *)
(* some of what is under way, and it may break at any time.                *)
(*                                                                         *)
(* A piece of the stream is a token <<kind, value>>.  NL stands for CR LF; *)
(* two of them end a header, and a body may hold them as well.             *)
(***************************************************************************)
EXTENDS Integers, SequencesExt

CONSTANTS
  Requests,     \* what clients ask: records [route, lines, body]
  Routes,       \* the routes of the server
  Permission,   \* Permission[r]: the permission route r asks for, Nil if for none
  Granted,      \* Granted[t]: the permissions of token t, for the known tokens
  Replies,      \* what handlers answer: records [status, body]
  RecvMax,      \* the size of the buffer of recv
  HeaderLimit,  \* how much parse_request reads in search of the end of a header
  Nil

Error(code) == [status |-> code, body |-> <<<<"error", 0>>>>]

\* What a server may answer: what a handler does, or one of its own errors.
Answers == Replies \cup {Error(code) : code \in {400, 401, 403, 404}}

\* http_request writes its header lines itself: none is empty, and none passes for
\* a request line.  Bodies are any tokens.
ASSUME ExchangeAssumption ==
  /\ RecvMax \in Nat \ {0}
  /\ HeaderLimit \in Nat
  /\ Routes \subseteq DOMAIN Permission
  /\ \A q \in Requests :
       /\ q.lines \in Seq(Range(q.lines)) /\ q.body \in Seq(Range(q.body))
       /\ \A l \in Range(q.lines) : l = <<l[1], l[2]>> /\ l[1] \notin {"nl", "route"}
  /\ \A r \in Replies : /\ r = [status |-> r.status, body |-> r.body]
                        /\ r.status \in Nat /\ r.body \in Seq(Range(r.body))

\* Nil is no token, no answer and nothing a handler is given.
ASSUME NilAssumption ==
  /\ Nil \notin DOMAIN Granted
  /\ Nil \notin Answers
  /\ Nil \notin [route : Routes, token : DOMAIN Granted \cup {Nil},
                 body : {q.body : q \in Requests}]

VARIABLES
  request,    \* what the client asks
  client,     \* where http_request is: head, body, reply, done or killed
  server,     \* where the server's thread is: header, body, send, free, killed,
              \* or, when a handler has thrown, dropped
  up, down,   \* what is under way to the server and to the client
  broken,     \* the connection is broken
  buffer,     \* buffer of parse_request
  got,        \* its body
  handled,    \* what the handler was given, or Nil
  response,   \* what the server answers
  raw,        \* raw of http_request
  result      \* what http_request returns: a reply, or Nil for an error

serverVars == <<server, buffer, got, handled, response>>
clientVars == <<client, raw, result>>
vars == <<request, client, server, up, down, broken, buffer, got, handled, response, raw, result>>

NL == <<"nl", 0>>

\* Where the first empty line of s begins; the variant looks for the last one.
EmptyLines(s) == {i \in 1 .. Len(s) - 1 : s[i] = NL /\ s[i + 1] = NL}
LastEnd(s) == CHOOSE i \in EmptyLines(s) : \A k \in EmptyLines(s) : k <= i
HeaderEnd(s) == CHOOSE i \in EmptyLines(s) : \A k \in EmptyLines(s) : i <= k
HeaderOf(s) == SubSeq(s, 1, HeaderEnd(s) - 1)

\* What has arrived behind the header; the variant forgets it.
AfterNothing(s) == <<>>
AfterHeader(s) == SubSeq(s, HeaderEnd(s) + 2, Len(s))

\* req.headers[kind]: the last line of that kind counts.
Header(h, kind, default) ==
  LET at == {i \in DOMAIN h : h[i][1] = kind} IN
  IF at = {} THEN default ELSE h[CHOOSE i \in at : \A k \in at : k <= i][2]

\* The request as http_request writes it, and the reply as serialize does.
OnLines(lines) == [i \in 1 .. 2 * Len(lines) |-> IF i % 2 = 1 THEN lines[(i + 1) \div 2] ELSE NL]
Message(first, lines, body) ==
  <<first, NL>> \o OnLines(lines) \o <<<<"length", Len(body)>>, NL, NL>>
HeadOf(q) == Message(<<"route", q.route>>, q.lines, q.body)
Serialize(r) == Message(<<"status", r.status>>, <<>>, r.body) \o r.body

Init ==
  /\ request \in Requests
  /\ client = "head" /\ server = "header"
  /\ up = <<>> /\ down = <<>> /\ broken = FALSE
  /\ buffer = <<>> /\ got = <<>>
  /\ handled = Nil /\ response = Nil
  /\ raw = <<>> /\ result = Nil

\* recv: n tokens of s, at most RecvMax.
Sizes(s) == 1 .. IF Len(s) < RecvMax THEN Len(s) ELSE RecvMax
First(s, n) == SubSeq(s, 1, n)
Rest(s, n) == SubSeq(s, n + 1, Len(s))

-----------------------------------------------------------------------------
(* http_request, the sending half.  Nobody looks at the result of send: on a *)
(* broken connection it does nothing, or SIGPIPE ends the process.           *)

SendUp(s, next) ==
  \/ ~broken /\ up' = up \o s /\ client' = next
  \/ broken /\ client' \in {next, "killed"} /\ UNCHANGED up

SendHead ==
  /\ client = "head"
  /\ SendUp(HeadOf(request), IF request.body = <<>> THEN "reply" ELSE "body")
  /\ UNCHANGED <<request, serverVars, down, broken, raw, result>>

SendBody ==
  /\ client = "body"
  /\ SendUp(request.body, "reply")
  /\ UNCHANGED <<request, serverVars, down, broken, raw, result>>

-----------------------------------------------------------------------------
(* parse_request and the job of HttpServer::run *)

\* The response a request gets that cannot be read: response{400, ...}.  The
\* variant is a response nobody has filled in.
Unfilled == Error(200)
Refusal == Error(400)

Answer(r) == server' = "send" /\ response' = r

RecvHeader ==
  /\ server = "header"
  /\ \E n \in Sizes(up) :
       LET b == buffer \o First(up, n) IN
       /\ up' = Rest(up, n)
       /\ buffer' = b
       /\ \/ Len(b) > HeaderLimit /\ Answer(Refusal) /\ UNCHANGED got
          \/ /\ Len(b) <= HeaderLimit
             /\ IF EmptyLines(b) = {} THEN UNCHANGED <<server, got>>
                                      ELSE server' = "body" /\ got' = AfterHeader(b)
             /\ UNCHANGED response
  /\ UNCHANGED <<request, clientVars, down, broken, handled>>

Wanted == Header(HeaderOf(buffer), "length", 0)

\* while (body.size() < content_length); the variant reads once.
CompleteAfterOne == Wanted = 0 \/ got # <<>>
Complete == Len(got) >= Wanted

RecvBody ==
  /\ server = "body" /\ ~Complete
  /\ \E n \in Sizes(up) : up' = Rest(up, n) /\ got' = got \o First(up, n)
  /\ UNCHANGED <<request, clientVars, server, down, broken, buffer, handled, response>>

\* recv returns no more before the request is complete.
RecvNothing ==
  /\ server = "header" \/ (server = "body" /\ ~Complete)
  /\ up = <<>> /\ broken
  /\ Answer(Refusal)
  /\ UNCHANGED <<request, clientVars, up, down, broken, buffer, got, handled>>

\* AuthManager::authorize: the admin permission stands for every other one.
Authorized(t, p) == t \in DOMAIN Granted /\ Granted[t] \cap {p, "admin"} # {}

\* The body parse_request hands on.
Body == SubSeq(got, 1, IF Len(got) < Wanted THEN Len(got) ELSE Wanted)

\* The first route that matches, its test of the token if it has one, and its
\* handler.  When the handler throws, which the file operations of ChunkStore
\* may, the task ends there: nothing is sent and the socket is not closed.
Dispatch ==
  LET route == Header(HeaderOf(buffer), "route", Nil)
      token == Header(HeaderOf(buffer), "token", Nil)
      open  == Permission[route] = Nil IN
  /\ server = "body" /\ Complete
  /\ \/ route \notin Routes /\ Answer(Error(404)) /\ UNCHANGED handled
     \/ /\ route \in Routes
        /\ \/ /\ ~open /\ ~Authorized(token, Permission[route])
              /\ Answer(Error(IF token \in DOMAIN Granted THEN 403 ELSE 401))
              /\ UNCHANGED handled
           \/ /\ open \/ Authorized(token, Permission[route])
              /\ \/ \E r \in Replies : Answer(r)
                 \/ server' = "dropped" /\ UNCHANGED response
              /\ handled' = [route |-> route, token |-> IF open THEN Nil ELSE token, body |-> Body]
  /\ UNCHANGED <<request, clientVars, up, down, broken, buffer, got>>

\* The socket is closed, by close_socket or with the process.
Closed(pc) == pc \in {"free", "killed"}

SendReply ==
  /\ server = "send"
  /\ \/ ~broken /\ down' = down \o Serialize(response) /\ server' = "free"
     \/ broken /\ server' \in {"free", "killed"} /\ UNCHANGED down
  /\ UNCHANGED <<request, clientVars, up, broken, buffer, got, handled, response>>

-----------------------------------------------------------------------------
(* http_request, the receiving half: it reads until the connection ends. *)

RecvReply ==
  /\ client = "reply"
  /\ \E n \in Sizes(down) : down' = Rest(down, n) /\ raw' = raw \o First(down, n)
  /\ UNCHANGED <<request, serverVars, client, up, broken, result>>

\* A reply without the end of a header is an error; the length is not looked at.
Reply(s) ==
  IF EmptyLines(s) = {} THEN Nil ELSE [status |-> s[1][2], body |-> AfterHeader(s)]

ReplyEnds ==
  /\ client = "reply"
  /\ down = <<>> /\ (broken \/ Closed(server))
  /\ result' = Reply(raw)
  /\ client' = "done"
  /\ UNCHANGED <<request, serverVars, up, down, broken, raw>>

\* The connection breaks, with some of what is under way: a peer dies, or closes
\* with something unread.
Break ==
  /\ ~broken
  /\ broken' = TRUE
  /\ \E i \in 0 .. Len(up) : up' = First(up, i)
  /\ \E i \in 0 .. Len(down) : down' = First(down, i)
  /\ UNCHANGED <<request, serverVars, clientVars>>

-----------------------------------------------------------------------------

ClientStep == SendHead \/ SendBody \/ RecvReply \/ ReplyEnds
ServerStep == RecvHeader \/ RecvBody \/ RecvNothing \/ Dispatch \/ SendReply

Next == ClientStep \/ ServerStep \/ Break

\* Both threads run, and what was sent arrives or the connection breaks.
Spec == Init /\ [][Next]_vars /\ WF_vars(ClientStep) /\ WF_vars(ServerStep)

-----------------------------------------------------------------------------
(* Properties *)

\* However the stream is cut into pieces, and whatever the body holds, the
\* handler is given the body the client sent, all of it and nothing else, and
\* on a route that asks for a permission only for a token that may have it.
RequestExact ==
  handled # Nil =>
    /\ handled.route = request.route
    /\ handled.body = request.body
    /\ Permission[request.route] # Nil =>
         /\ <<"token", handled.token>> \in Range(request.lines)
         /\ Authorized(handled.token, Permission[request.route])

\* The reply the client takes is the one the server gave: a prefix of its body
\* when the connection broke, and the whole of it when it did not.
ReplyExact ==
  client = "done" =>
    /\ result # Nil => /\ result.status = response.status
                       /\ IsPrefix(result.body, response.body)
    /\ ~broken => result # Nil /\ result.body = response.body

\* Whoever is answered with success has had the handler run, even when the
\* connection broke on the way; NodeClient counts such an answer as an
\* acknowledgement.
SuccessIsHandled ==
  client = "done" /\ result # Nil /\ result.status < 300 => handled # Nil

\* Both threads get rid of the connection: neither waits for bytes that the
\* other side has sent already or will never send.  The one exception is a
\* handler that throws: the client of its request waits for an answer as long
\* as the connection holds.
Waiting == client = "reply" /\ server = "dropped" /\ ~broken
ExchangeEnds ==
  <>[](/\ server \in {"free", "killed", "dropped"}
       /\ client \in {"done", "killed"} \/ Waiting)
=============================================================================
