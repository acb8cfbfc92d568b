----------------------------- MODULE MCCommands -----------------------------
(* Makefiles with a line of every kind, shorter and longer than what stdio *)
(* keeps, and all options that matter to each other.                       *)
EXTENDS Commands

MCMakefiles ==
  { <<>>,
    <<"blank", "messy", "blank", "blank", "rev", "cut">>,
    <<"tidy", "rev", "tidy">>,
    <<"rev", "badrev">>,
    <<"tidy", "broken", "tidy">>,
    <<"messy", "open", "tidy">>,
    <<"tidy", "messy", "target">>,
    <<"blank", "tidy", "messy", "subdir">>,
    <<"tidy", "target", "subdir">>,
    <<"tidy", "include", "messy", "subdir">> }

MCOptions ==
  { <<>>, <<"i">>, <<"D">>, <<"d">>, <<"i", "D">>, <<"d", "i">>, <<"d", "d", "d">>,
    <<"d", "D">>, <<"e">>, <<"e", "i">> }
=============================================================================
