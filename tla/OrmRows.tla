------------------------------ MODULE OrmRows -------------------------------
(***************************************************************************)
(* What SQLAlchemy's unit of work sends to PostgreSQL for an object that   *)
(* was loaded, assigned to and committed, as the handlers under            *)
(* app/routers and backend/api rely on it.                                 *)
(***************************************************************************)

\* UPDATE names the columns whose value differs from the one that was read;
\* the others keep what somebody else may have put there since.
Merge(read, mine, now) ==
  [column \in DOMAIN mine |->
     IF mine[column] # read[column] THEN mine[column] ELSE now[column]]

=============================================================================
