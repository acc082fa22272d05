------------------------------ MODULE MCShared -------------------------------
(***************************************************************************)
(* What several actors share, for TLC: the pool and the capability of a    *)
(* host by three calls (Runner), a session by two searches                 *)
(* (SessionSystem), and the stream of a session by two requests            *)
(* (RequestFrames).  A behaviour is of one of the three; they have no      *)
(* state in common.                                                        *)
(***************************************************************************)
EXTENDS Runner, TLC

VARIABLE part

-----------------------------------------------------------------------------
(* Reads and a mutation share the cache; the other calls share the pool    *)
(* with one of them.                                                       *)

CONSTANTS a, b, c

Calls == {a, b, c}
Workloads ==
    { (a :> "read" @@ b :> "read" @@ c :> "mutation"),
      (a :> "run" @@ b :> "job" @@ c :> "prepare"),
      (a :> "forward" @@ b :> "search" @@ c :> "prepare") }

-----------------------------------------------------------------------------
(* Two searches that find nothing: the failure of one call is the failure  *)
(* of both.                                                                *)

CONSTANTS s1, s2, Nothing

VARIABLES up, down, link, killed, calls, results, ready, reply, pending, received,
          closed, failing, queue, tasks, main, active, worker, cancelled, group,
          alive, may, shell, child, unwritten, pipe, drain, stop

sessionVars == <<up, down, link, killed, calls, results, ready, reply, pending, received,
                 closed, failing, queue, tasks, main, active, worker, cancelled, group,
                 alive, may, shell, child, unwritten, pipe, drain, stop>>

Session2 == INSTANCE SessionSystem WITH
    call <- calls, result <- results,
    Request <- {s1, s2}, Command <- {}, QueueCap <- 1, PipeCap <- 1, MaxOutput <- 0,
    Offspring <- {}, Faults <- {"retire"}, None <- Nothing

Symmetric == Permutations({s1, s2})

-----------------------------------------------------------------------------
(* Every kind of request, with and without an input or globs, and one that *)
(* is too large.                                                           *)

VARIABLES remote, usable, todo, asked, stream, cut, opening, parts, answers, taken, dead

streamVars == <<remote, usable, todo, asked, stream, cut, opening, parts, answers, taken, dead>>

Command(login, lengths) == [kind |-> "command", login |-> login, parts |-> lengths]

Stream == INSTANCE RequestFrames WITH
    Queue <- <<1, 2>>,
    MaxPayload <- 2,
    Shapes <-
        {Command(login, <<1, 2, n>>) : login \in BOOLEAN, n \in 0 .. 1}
        \cup {Command(FALSE, <<1, 3, 0>>), [kind |-> "job", login |-> FALSE, parts |-> <<2>>]}
        \cup {[kind |-> "search", login |-> FALSE, parts |-> <<1, 2, n>>] : n \in 0 .. 1}

-----------------------------------------------------------------------------
MCInit ==
    /\ Init /\ Session2!Init /\ Stream!Init
    /\ part \in {"pool", "session", "stream"}
    /\ part # "pool" => kind[a] = "read" /\ tool
    /\ part # "stream" => remote = "helper" /\ usable

MCNext ==
    \/ part = "pool" /\ Next /\ UNCHANGED <<part, sessionVars, streamVars>>
    \/ part = "session" /\ Session2!Next /\ UNCHANGED <<part, vars, streamVars>>
    \/ part = "stream" /\ Stream!Next /\ UNCHANGED <<part, vars, sessionVars>>

MCSpec == MCInit /\ [][MCNext]_<<part, vars, sessionVars, streamVars>>

NoneForgotten == Session2!NoneForgotten
RequestsArriveWhole == Stream!RequestsArriveWhole

=============================================================================
