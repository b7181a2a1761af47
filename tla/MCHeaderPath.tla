---------------------------- MODULE MCHeaderPath ----------------------------
(* Hashes of two words of base-4 digits: 65536 values. *)
EXTENDS HeaderPath

MCVersions == {<<2, 0, 0, 1>>}
MCTimes == {<<0, 1, 2, 3>>, <<3, 3, 3, 3>>}
MCNonces == {<<3, 0, 1, 0>>}

\* One value of each whose words read the same in both byte orders.
MCPrevHashes == {<<0, 1, 2, 3, 3, 1, 0, 2>>, Zeros(8)}
MCRoots == {<<2, 0, 3, 1, 1, 3, 2, 0>>, Zeros(8)}

\* Every branch of the decoding: exponents below, at and above the mantissa's
\* three bytes and the hash's eight, a sign bit, a zero mantissa.
MCCompactBits ==
    {<<e, 1, 2, 3>> : e \in {0, 1, 2, 3, 4, 8, 9}} \cup {<<5, 2, 0, 1>>, <<5, 0, 0, 0>>}

\* The neighbourhood of every target, in both byte orders.
MCDigests ==
    LET near == {BytesOf(v, HashLen) : v \in {0, 6, 7, 27, 28, 108, 109, 27648, 27649,
                                              65535}}
    IN near \cup {Reverse(d) : d \in near}

MCNtimeCaps == {<<ZeroWord, ZeroWord>>, <<<<0, 1, 3, 0>>, <<0, 2, 0, 0>>>>}
=============================================================================
