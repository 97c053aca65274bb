-------------------------- MODULE MCKernelServices --------------------------
(* Semaphores with no unit, with fewer than there are tasks, and with a    *)
(* maximum that is cut down to the default.                                *)
EXTENDS KernelServices

MCSemArg == {-1, 0, 1, 3}
=============================================================================
