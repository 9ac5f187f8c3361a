------------------------------ MODULE MCBuilder ------------------------------
(* Command lines that reach every rule and every flag, among them several  *)
(* rules in a row that share state; the script adds the empty one.  One    *)
(* word has a blank.                                                       *)
EXTENDS Builder

MCCommandLines ==
    { <<"build">>,
      <<"clean", "build", "static", "debug", "help">>,
      <<"self-build-debug", "gdb", "build", "dynamic", "no-obj">>,
      <<"--dry-run", "clean", "all", "build", "no-obj", "build", "dynamic", "build-tests", "self-rebuild">>,
      <<"self-rebuild", "typo", "build-tests", "build", "debug">>,
      <<"build-tests", "debug", "exec">>,
      <<"typo", "clean", "all", "build", "force">>,
      <<"help", "clean --dry-run">> }

(* sh splits the word with the blank. *)
MCSplit == <<"help", "clean", "--dry-run">>

MCPlain == STRING \ {"clean --dry-run"}

MCShell ==
    [words \in MCCommandLines \cup {<<>>, MCSplit} |->
       {IF Contains(words, "clean --dry-run") THEN MCSplit ELSE words}]
=============================================================================
