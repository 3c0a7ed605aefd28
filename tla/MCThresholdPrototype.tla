------------------------ MODULE MCThresholdPrototype ------------------------
(***************************************************************************)
(* An instance of ThresholdPrototype for TLC. The bindings differ in one   *)
(* field each: the random bytes, the digest, and chain and nonce chosen so *)
(* that their bytes run into one another unless they are padded.           *)
(***************************************************************************)
EXTENDS ThresholdPrototype, TLC

Bound(chain, nonce, digest, random) ==
    [wallet |-> <<1>>, chain |-> chain, nonce |-> nonce, digest |-> digest,
     policyVersion |-> 1, protocol |-> <<7>>, random |-> random]

Opened ==
    {Bound(17, 2, <<5>>, <<3>>),
     Bound(17, 2, <<5>>, <<4>>),
     Bound(17, 2, <<6>>, <<3>>),
     Bound(1, 18, <<5>>, <<3>>)}
=============================================================================
