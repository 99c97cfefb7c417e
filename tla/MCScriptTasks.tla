---------------------------- MODULE MCScriptTasks ----------------------------
EXTENDS ScriptTasks, TLC

\* One script leaves a condition open, over the end of a block and at its
\* end; the other has two blocks too.
Programs ==
  [open |-> << <<"say", "if">>, <<"say">> >>,
   talk |-> << <<"say">>, <<"if", "fi", "say">> >>]

Alike == Permutations(Task \ Binary) \cup Permutations(Cli)
=============================================================================
