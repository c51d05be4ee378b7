---------------------------- MODULE MCSigSystem ----------------------------
(* Instances of SigSystem for TLC. *)
EXTENDS SigSystem, TLC

CONSTANTS d1, d2, c1, c2, c3, k1, k2, s1, s2, s3

\* Every connection has a code of its own.
OwnCodes ==
    d1 :> {k1} @@ d2 :> {k2} @@ c1 :> {s1} @@ c2 :> {s2} @@ c3 :> {s3}

OneDeviceCodes == [x \in Devices \cup Controllers |-> OwnCodes[x]]

\* d2 is d1's successor under the same USER_CODE; the session codes that two
\* windows draw may collide.
SharedCodes == d1 :> {k1} @@ d2 :> {k1} @@ c1 :> {s1, s2} @@ c2 :> {s1, s2}

\* Controllers are alike, and so are devices: one is renamed together with its
\* code.
CodeOf(x) == CHOOSE k \in Codes : OwnCodes[x] = {k}

Renamed(p, xs) ==
    [v \in xs \cup {CodeOf(x) : x \in xs} |->
        IF v \in xs THEN p[v] ELSE CodeOf(p[CHOOSE x \in xs : CodeOf(x) = v])]

Windows == {Renamed(p, {c1, c2, c3}) : p \in Permutations({c1, c2, c3})}

\* With shared codes, windows, devices and session codes are renamed freely.
FreeRenamings ==
    {p @@ q @@ r : p \in Permutations({c1, c2}), q \in Permutations({d1, d2}),
                   r \in Permutations({s1, s2})}
=============================================================================
