---------------------------- MODULE MCSchedulers ----------------------------
(***************************************************************************)
(* Three versions: the second moves a method to another queue and adds a   *)
(* schedule, the third changes a pattern and schedules a method by two.    *)
(***************************************************************************)
EXTENDS Schedulers

CONSTANTS
  digest, cleanup,     \* methods
  hourly, daily,       \* patterns
  default, slow        \* queues

At(m, c, q) == [method |-> m, pattern |-> c, queue |-> q]

MCDeclared == <<
  {At(digest, hourly, slow)},
  {At(digest, daily, default), At(cleanup, hourly, slow)},
  {At(digest, hourly, default), At(digest, daily, default), At(cleanup, daily, slow)} >>
=============================================================================
