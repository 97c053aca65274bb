--------------------------- MODULE MCCommandPath ---------------------------
(* Frames of two or three bytes.  A Pi-KVM request may contain the bytes   *)
(* that end a raw report.                                                  *)
EXTENDS CommandPath

MCFrame == {<<"3", "cr", "d">>, <<"3", "d", "3">>, <<"@", "d", "lf">>,
            <<"@", "d", "d", "cr">>, <<"#", "d", "cr">>, <<"#", "cr">>}

\* Pi-KVM requests without a byte that ends a raw report.
MCPlainRequest == {<<"3", "d">>, <<"3", "3">>}
=============================================================================
