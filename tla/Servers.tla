------------------------------ MODULE Servers ------------------------------
(* The servers: what ServeUDP, ServeTCP, ServeDoQ and the HTTP handler do   *)
(* with the queries of one client connection (for UDP: one socket), and     *)
(* EntryHandler.Handle, which makes the reply.                              *)
EXTENDS Naturals, FiniteSets

CONSTANTS Queries,    \* queries the client sends
          Sizes,      \* sizes of replies, and UDP sizes of a client's OPT
          MinMsgSize  \* dns.MinMsgSize

ASSUME ServersAssumption == Sizes \subseteq Nat /\ MinMsgSize \in Nat

VARIABLES
    server,     \* "udp" | "tcp" | "doq" | "http"
    listening,  \* the plugin has not been closed
    serving,    \* ServeXXX has not returned; it cancels listenerCtx when it does
    conn,       \* "open" | "closed": the connection (UDP: the socket)
    reader,     \* "read" | "end": the loop that reads from the connection
    query,      \* query -> [state, kind, opt, ctx]
    replied     \* query -> what was written for it, or why nothing was:
                \* "abort": the connection was closed because of it, "silent": not
                \* even that, "lost": it had been closed, "unsent": the write failed

serverVars == <<server, listening, serving, conn, reader, query, replied>>

(* What a client may send: a query; one that fails the basic check; bytes   *)
(* that are no message.  An opt of 0: the query has no OPT.                 *)
Kinds == {"query", "bad", "garbage"}
Nothing == [size |-> 0, tc |-> FALSE, status |-> "none"]

ServersInit ==
    /\ server \in {"udp", "tcp", "doq", "http"}
    /\ listening = TRUE /\ serving = TRUE /\ conn = "open" /\ reader = "read"
    /\ query \in [Queries -> [state : {"none"}, kind : Kinds, opt : Sizes \cup {0}, ctx : {"live"}]]
    /\ replied = [q \in Queries |-> Nothing]

At(q, state) == query[q].state = state
To(q, state) == query' = [query EXCEPT ![q].state = state]
-----------------------------------------------------------------------------
(* The reader.  Bytes that are no message end a TCP connection; elsewhere   *)
(* they end only the datagram, the stream or the request.                   *)
CancelAll == query' = [q \in Queries |-> [query[q] EXCEPT !.ctx = "cancelled"]]

CloseConn ==
    /\ reader' = "end" /\ conn' = "closed" /\ CancelAll

EndsConn_Always == TRUE
EndsConn == server = "tcp"

Read(q) ==
    /\ reader = "read" /\ conn = "open" /\ At(q, "none")
    /\ CASE query[q].kind # "garbage" -> To(q, "handle") /\ UNCHANGED <<conn, reader, replied>>
         [] query[q].kind = "garbage" /\ EndsConn ->
              /\ CloseConn
              /\ replied' = [replied EXCEPT ![q].status = "abort"]
         [] query[q].kind = "garbage" /\ ~EndsConn /\ server = "http" ->
              /\ To(q, "done") /\ UNCHANGED <<conn, reader>>
              /\ replied' = [replied EXCEPT ![q].status = "badRequest"]
         [] OTHER -> To(q, "done") /\ UNCHANGED <<conn, reader, replied>>
    /\ UNCHANGED <<server, listening, serving>>

(* The idle timeout, the client's closing, an error.  The socket of a UDP   *)
(* server is closed with the server; net/http cancels the request's ctx     *)
(* with its connection.                                                     *)
ReadFails ==
    /\ reader = "read" /\ server # "udp"
    /\ CloseConn
    /\ UNCHANGED <<server, listening, serving, replied>>

(* The plugin's Close closes the listener (UDP: the socket; HTTP: every     *)
(* connection as well): an Accept fails and ServeXXX returns.  Connections  *)
(* of the others stay until they are idle or, with QUIC, cancelled.         *)
CloseServer ==
    /\ listening
    /\ listening' = FALSE
    /\ conn' = IF server \in {"udp", "http"} THEN "closed" ELSE conn
    /\ UNCHANGED <<server, serving, reader, query, replied>>

ReaderEnds == IF server = "udp" THEN "end" ELSE reader
ServeReturns ==
    /\ ~listening /\ serving
    /\ serving' = FALSE
    /\ CancelAll
    /\ reader' = ReaderEnds
    /\ UNCHANGED <<server, listening, conn, replied>>
-----------------------------------------------------------------------------
(* EntryHandler.Handle.  It has a deadline of its own, so that it returns.  *)
getValidUDPSize_NoMin(opt) == opt
getValidUDPSize(opt) == IF opt < MinMsgSize THEN MinMsgSize ELSE opt

(* Truncate leaves a reply that fits alone and sets TC on one it cuts. *)
Truncate(size, max) ==
    [size |-> IF size > max THEN max ELSE size, tc |-> size > max, status |-> "reply"]

(* Handle returns nil: for a query that fails the basic check, and for one  *)
(* whose reply cannot be packed.  TCP aborts the connection.                *)
NoPayload(q) ==
    /\ To(q, "done")
    /\ conn' = IF server = "tcp" THEN "closed" ELSE conn
    /\ replied' = [replied EXCEPT ![q].status =
           CASE server = "tcp" -> "abort" [] server = "http" -> "serverError" [] OTHER -> "silent"]

Payload(q) ==
    /\ query[q].kind # "bad"
    /\ \E size \in Sizes :
           replied' = [replied EXCEPT ![q] =
               [Truncate(size, IF server = "udp" THEN getValidUDPSize(query[q].opt) ELSE size)
                  EXCEPT !.status = "packed"]]
    /\ To(q, "write") /\ UNCHANGED conn

Handle(q) ==
    /\ At(q, "handle")
    /\ NoPayload(q) \/ Payload(q)
    /\ UNCHANGED <<server, listening, serving, reader>>

(* The write fails on a connection that is closed, and may on an open one.  *)
Write(q) ==
    /\ At(q, "write")
    /\ To(q, "done")
    /\ \E status \in IF conn = "open" THEN {"reply", "unsent"} ELSE {"lost"} :
           replied' = [replied EXCEPT ![q].status = status]
    /\ UNCHANGED <<server, listening, serving, conn, reader>>

ServersNext ==
    \/ ReadFails \/ CloseServer \/ ServeReturns
    \/ \E q \in Queries : Read(q) \/ Handle(q) \/ Write(q)

(* Handlers have deadlines; connections have idle timeouts; Serve returns   *)
(* when its listener is closed.                                             *)
ServersFairness ==
    /\ WF_serverVars(ServeReturns) /\ WF_serverVars(ReadFails)
    /\ \A q \in Queries : WF_serverVars(Handle(q)) /\ WF_serverVars(Write(q))

ServersSpec == ServersInit /\ [][ServersNext]_serverVars /\ ServersFairness
-----------------------------------------------------------------------------
ServersTypeOK ==
    /\ conn \in {"open", "closed"} /\ reader \in {"read", "end"}
    /\ \A q \in Queries : query[q].state \in {"none", "handle", "write", "done"}

(* A client gets what it can take and what is its due: over UDP no more     *)
(* than its OPT, or the minimum, allows, marked when it was cut; elsewhere  *)
(* the whole reply; and bytes that are no query get no reply.               *)
ReplyFits ==
    \A q \in Queries : replied[q].status = "reply" =>
        /\ query[q].kind = "query"
        /\ server = "udp" => \/ replied[q].size <= query[q].opt
                             \/ replied[q].size <= MinMsgSize
        /\ replied[q].tc => server = "udp" /\ replied[q].size >= MinMsgSize

(* A query that was read is answered, or its own reply could not be packed  *)
(* or written; others on its connection take the reply away with TCP alone, *)
(* whose connection ends with the first that is no message, bad or has a    *)
(* reply that cannot be packed.  A UDP socket is open as long as the server *)
(* listens, other connections until their client or a timeout ends them.    *)
OwnFailure == {"silent", "abort", "serverError", "unsent"}
OthersDoNoHarm ==
    \A q \in Queries :
        query[q].kind = "query" /\ query[q].state # "none" ~>
            \/ replied[q].status \in {"reply"} \cup OwnFailure
            \/ /\ conn = "closed"
               /\ server = "udp" => ~listening
               /\ server # "tcp" => \A p \in Queries : replied[p].status # "abort"

(* A server that is closed comes to rest: no handler, reader or connection  *)
(* is left.                                                                 *)
Drains ==
    ~listening ~> /\ ~serving /\ reader = "end" /\ conn = "closed"
                  /\ \A q \in Queries : query[q].state \in {"none", "done"}
=============================================================================
