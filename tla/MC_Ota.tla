-------------------------------- MODULE MC_Ota --------------------------------
(***************************************************************************)
(* The instance of Ota for TLC.                                            *)
(***************************************************************************)
EXTENDS Ota

\* docs/modules/ota.md:37-44 as one line of JSON, without its closing brace.
Documented == 156
Short      == 120

Asks(complete, length, ours, ver) ==
    [complete |-> complete, length |-> length, ours |-> ours, ver |-> ver]

\* Two versions for this hardware, an image of another one, and a command of the length
\* the documents give, which is cut.
SomeRequests == <<Asks(TRUE, Short, TRUE, 1), Asks(TRUE, Short, TRUE, 2),
                  Asks(TRUE, Short, FALSE, 1), Asks(TRUE, Documented, TRUE, 1)>>

Update(v) == [action |-> "ota_update", value |-> v]
WipeIt    == [action |-> "factory_reset", value |-> 0]
Ask       == [action |-> "query", value |-> 0]

AllCommands == {Update(1), Update(2), Update(3), Update(4), WipeIt, Ask}
=============================================================================
