----------------------------- MODULE MCDispatch -----------------------------
(***************************************************************************)
(* Messages of every kind and form for Dispatch, of three priorities.      *)
(***************************************************************************)
EXTENDS Dispatch

Msg(id, kind, prio, form) == [id |-> id, kind |-> kind, prio |-> prio, form |-> form]

MCMessages == {
  Msg(1, "query", 0, "accepted"), Msg(2, "topology", 0, "accepted"),
  Msg(3, "version", 1, "accepted"), Msg(4, "delay", 1, "accepted"),
  Msg(5, "node", 0, "accepted"), Msg(6, "transfer", 2, "accepted"),
  Msg(7, "query", 0, "rejected"), Msg(8, "query", 0, "garbled")}

MCNet0 == <<"n1", "n2", "n3">>
=============================================================================
