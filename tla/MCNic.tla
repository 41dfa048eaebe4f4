-------------------------------- MODULE MCNic --------------------------------
(* Nic for TLC. *)
EXTENDS Nic, TLC

Card  == [card |-> TRUE, io |-> TRUE, multi |-> FALSE]
Other == [card |-> FALSE, io |-> TRUE, multi |-> FALSE]
Multi == [card |-> FALSE, io |-> TRUE, multi |-> TRUE]
NoIo  == [card |-> TRUE, io |-> FALSE, multi |-> FALSE]

\* The card behind a device of several functions, whose last are not all listed
Found == (<<0, 0>> :> Multi) @@ (<<0, 1>> :> Other) @@ (<<1, 0>> :> Card)

\* One behind more devices than the list has room for
Late == (<<0, 0>> :> Multi) @@ (<<0, 1>> :> Multi) @@ (<<0, 2>> :> Other) @@ (<<1, 0>> :> Card)

\* No card; one without registers in I/O space; and that before another; one that is function
\* 1 of a slot without a function 0
BusesForTLC ==
  {Found, Late, <<0, 0>> :> Other, <<1, 0>> :> NoIo,
   (<<0, 0>> :> NoIo) @@ (<<1, 0>> :> Card), <<0, 1>> :> Card}
=============================================================================
