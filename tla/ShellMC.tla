------------------------------- MODULE ShellMC -------------------------------
(***************************************************************************)
(* Command lines for the checking of Shell.                                *)
(***************************************************************************)
EXTENDS Shell

Plain(argv) == [argv |-> argv, redirs |-> {}]

SomeLines == {
  \* cat | counter, with and without an input of its own for the counter
  <<Plain(<<"cat">>), Plain(<<"counter">>)>>,
  <<Plain(<<"cat">>), [argv |-> <<"counter">>, redirs |-> {"<", ">"}]>>,
  \* a reader that never reads, and a command that does not exist
  <<Plain(<<"cat">>), Plain(<<"cd">>)>>,
  <<Plain(<<"cat">>), Plain(<<"nosuch">>), Plain(<<"counter">>)>>,
  \* the counter runs the cat, and its line is counted in turn
  <<Plain(<<"counter", "cat">>), Plain(<<"counter">>)>>,
  <<Plain(<<"pwd">>), Plain(<<"cat">>)>>,
  \* the cat reads a file that it is given, and not its input, which "-" stands for
  <<Plain(<<"pwd">>), Plain(<<"cat", "file">>), Plain(<<"counter">>)>>,
  <<Plain(<<"pwd">>), Plain(<<"cat", "-">>), Plain(<<"counter">>)>>}
=============================================================================
