------------------------------ MODULE MCLayout ------------------------------
(* Layout around the BUF_LEN of platform_common.h, 1024*32. *)
EXTENDS Layout

BUF_LEN == 1024 * 32

\* All remainders of a word and of a block of 64 occur.
NearBuilds == (BUF_LEN - 66) .. (BUF_LEN + 4)

\* Requests about as long as request and answer of the others.
FarBuilds == {2 * BUF_LEN + k : k \in {-100, 0, 52, 56, 64}}

Builds == NearBuilds \union FarBuilds
=============================================================================
