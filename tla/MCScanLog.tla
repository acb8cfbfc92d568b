----------------------------- MODULE MCScanLog -----------------------------
(* Results that grow, shrink and come back, an empty one, and one that is  *)
(* not read back as it was written.                                        *)
EXTENDS ScanLog

Unknown(port) == [type |-> "V", origin |-> <<port>>, value |-> <<7>>]
Unhooked == [type |-> "Cu", origin |-> <<1, 2>>, value |-> <<8, 9>>]

MCResults ==
  { <<>>,
    <<Unknown(1)>>,
    <<Unknown(2)>>,
    <<Unknown(1), Unknown(2)>>,
    <<Unhooked>> }
=============================================================================
