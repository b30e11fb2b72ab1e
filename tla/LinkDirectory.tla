----------------------------- MODULE LinkDirectory -----------------------------
(***************************************************************************)
(* What the service promises of its links, without threads, statements,    *)
(* caches or circuits: a directory from codes to destinations.  A request  *)
(* is asked, has its effect and its answer fixed in one step, or has       *)
(* neither, and is answered.  Links implements it (LinkRefinement).        *)
(***************************************************************************)
EXTENDS Naturals

CONSTANTS
    Code, Url, User, Client,
    Missing,            \* what an unused code leads to
    Unknown,            \* a destination not looked up yet
    Anonymous, NoCode,
    Cached              \* may a lookup answer with what was true before?

VARIABLES
    urls,       \* the directory
    nextId,     \* identity of the next link
    said,       \* per code: the destinations it has had so far
    request     \* per client

vars == <<urls, nextId, said, request>>

NoRow == [id |-> 0, url |-> Missing, owner |-> Anonymous]
Exists(c) == urls[c].id # 0

Request(k, u, c, x, n, a) ==
    [kind |-> k, user |-> u, code |-> c, url |-> x, id |-> n, answer |-> a]
Nobody == Request("none", Anonymous, NoCode, Unknown, 0, "none")

Init ==
    /\ urls = [c \in Code |-> NoRow] /\ nextId = 1
    /\ said = [c \in Code |-> {Missing}]
    /\ request = [h \in Client |-> Nobody]

Update(h, r) == request' = [request EXCEPT ![h] = r]
Pending(h, k) == request[h].kind = k /\ request[h].answer = "none"

Ask(h, r) ==
    /\ request[h] = Nobody
    /\ Update(h, r)
    /\ UNCHANGED <<urls, nextId, said>>
AskToCreate(h, u, x) == Ask(h, Request("create", u, NoCode, x, 0, "none"))
AskToDelete(h, u, c) == Ask(h, Request("delete", u, c, Unknown, 0, "none"))
AskForUrl(h, c) == Ask(h, Request("redirect", Anonymous, c, Unknown, 0, "none"))
TurnAway(h, k) ==
    Ask(h, Request(k, Anonymous, NoCode, Unknown, 0, "unauthorized"))

\* A request can end without an effect, and says why.
Refuse(h) ==
    LET r == request[h] IN
    \E a \in {"refused", "exhausted", "not_owned", "error"} :
        /\ r.answer = "none"
        /\ a \in {"refused", "exhausted"} => r.kind = "create"
        /\ a = "exhausted" => \E c \in Code : Exists(c)
        /\ a = "not_owned" =>
              /\ r.kind = "delete" /\ r.id = 0
              /\ ~(Exists(r.code) /\ urls[r.code].owner = r.user)
        /\ Update(h, [r EXCEPT !.answer = a])
        /\ UNCHANGED <<urls, nextId, said>>

\* The code c gets or loses its link.
Enter(c, row) ==
    /\ urls' = [urls EXCEPT ![c] = row]
    /\ said' = [said EXCEPT ![c] = @ \cup {row.url}]

\* A creation takes a code that is free; an error does not say whether it did.
Create(h, c) ==
    LET r == request[h] IN
    /\ Pending(h, "create") /\ ~Exists(c)
    /\ Enter(c, [id |-> nextId, url |-> r.url, owner |-> r.user])
    /\ nextId' = nextId + 1
    /\ \/ Update(h, Request("create", r.user, c, r.url, nextId, "created"))
       \/ Update(h, [r EXCEPT !.answer = "error"])

\* A deletion finds the link it is about, and later removes that link only.
Find(h) ==
    LET r == request[h] IN
    /\ Pending(h, "delete") /\ r.id = 0
    /\ Exists(r.code) /\ urls[r.code].owner = r.user
    /\ Update(h, [r EXCEPT !.id = urls[r.code].id])
    /\ UNCHANGED <<urls, nextId, said>>
Remove(h) ==
    LET r == request[h] IN
    /\ Pending(h, "delete") /\ r.id # 0
    /\ IF urls[r.code].id = r.id
       THEN /\ Enter(r.code, NoRow)
            /\ \E a \in {"deleted", "error"} : Update(h, [r EXCEPT !.answer = a])
       ELSE Update(h, [r EXCEPT !.answer = "deleted"]) /\ UNCHANGED <<urls, said>>
    /\ UNCHANGED nextId

\* A lookup answers what the directory says, or said before of this code.
LookUp(h) ==
    LET r == request[h] IN
    /\ Pending(h, "redirect")
    /\ \E x \in IF Cached THEN said[r.code] ELSE {urls[r.code].url} :
          Update(h, Request("redirect", r.user, r.code, x, r.id,
                            IF x = Missing THEN "missing" ELSE "found"))
    /\ UNCHANGED <<urls, nextId, said>>

\* Requests end: they are answered, or cut off with the process that serves
\* them.
End(H) ==
    /\ request' = [h \in Client |-> IF h \in H THEN Nobody ELSE request[h]]
    /\ UNCHANGED <<urls, nextId, said>>

Next ==
    \/ \E H \in SUBSET Client : End(H)
    \/ \E h \in Client :
          \/ \E u \in User \cup {Anonymous}, x \in Url : AskToCreate(h, u, x)
          \/ \E u \in User, c \in Code : AskToDelete(h, u, c)
          \/ \E c \in Code : AskForUrl(h, c) \/ Create(h, c)
          \/ \E k \in {"create", "delete"} : TurnAway(h, k)
          \/ Refuse(h) \/ Find(h) \/ Remove(h) \/ LookUp(h)

Spec == Init /\ [][Next]_vars
===============================================================================
