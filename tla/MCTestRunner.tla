--------------------------- MODULE MCTestRunner ---------------------------
(* A suite with a comment line, a test on VM1 and a test on VM2 and the  *)
(* client; every run supplies both images, from one of two image sets.   *)
EXTENDS TestRunner

MCOrig == << <<"#", " ", "VM", "1">>,
             <<"ta", ":", "VM", "1">>,
             <<"tb", " ", ":", " ", "VM", "2", " ", "CLIENT">> >>

MCArgChoices ==
    { [vm |-> <<"a1", "a2">>, bdf |-> <<>>, port |-> <<>>, client |-> "cred"],
      [vm |-> <<"b1", "b2">>, bdf |-> <<>>, port |-> <<>>, client |-> NoArg] }

MCOutputs == { <<"PASSED">>, <<"PASSED", "FAILED">>, <<>> }
=============================================================================
