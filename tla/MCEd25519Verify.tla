---------------------------- MODULE MCEd25519Verify ----------------------------
(***************************************************************************)
(* Ed25519Verify for TLC: two keys, two messages of different lengths, the *)
(* three signatures that exist, and every transaction of two or three      *)
(* instructions that puts an Ed25519 instruction with an arbitrary entry,  *)
(* or a client's pair, among others.  Keys, signatures and the header are  *)
(* one byte long.                                                          *)
(***************************************************************************)
EXTENDS Ed25519Verify

Op == <<"op">>
Other == <<"other">>
Msg == <<"m">>
LongMsg == <<"m", "m">>
MCHeader == <<"h">>

MCBytes == {"h", "m", "op", "other", "op_m", "other_m", "op_mm"}

MCSignatures ==
    { <<<<"op_m">>, Op, Msg>>, <<<<"other_m">>, Other, Msg>>,
      <<<<"op_mm">>, Op, LongMsg>> }

Datas ==
    { MCHeader \o k \o s \o m :
        k \in {Op, Other}, s \in {triple[1] : triple \in MCSignatures},
        m \in {Msg, LongMsg} }

Entries ==
    [ sig_off : {2}, sig_ix : {0, 1, U16Max},
      pk_off : {1, 4}, pk_ix : {0, 1, U16Max},
      msg_off : {3, 4}, msg_sz : {1, 2}, msg_ix : {0, 1, U16Max} ]

SelfEntries == { e \in Entries : {e.sig_ix, e.pk_ix, e.msg_ix} = {U16Max} }

OtherIx(data) == [program |-> "other", data |-> data]

Ed25519Ix(count, entries, data) ==
    [program |-> "ed25519", count |-> count, entries |-> entries, data |-> data]

Finalizes == {FinalizeIx(Op, Msg), FinalizeIx(Op, LongMsg)}

\* Data that a stored index may point at, in front of a crafted instruction.
Crafted ==
    { <<OtherIx(d1), Ed25519Ix(1, <<e>>, d2), fin>> :
        d1 \in {MCHeader \o k \o <<"op_m">> \o Msg : k \in {Op, Other}},
        d2 \in Datas, e \in Entries, fin \in Finalizes }

\* Counts that disagree with the entries, and no entry at all.
Miscounted ==
    { <<Ed25519Ix(n, es, d), fin>> :
        n \in 0 .. 2, d \in Datas, fin \in Finalizes,
        es \in {<< >>, <<SelfEntry(Msg)>>}
               \cup {<<e, SelfEntry(Msg)>> : e \in SelfEntries} }

\* The client's pair.
Pairs ==
    UNION { { <<VerifyIx(triple[1], fin.operator, fin.message), fin>> :
                triple \in MCSignatures } : fin \in Finalizes }

Around ==
    {<<OtherIx(<< >>)>>, << >>} \cup {<<fin>> : fin \in Finalizes} \cup Pairs

\* The pair with instructions put before, between and after its two halves.
Rearranged ==
    { a \o <<p[1]>> \o b \o <<p[2]>> \o c :
        p \in Pairs, a \in Around, b \in {<< >>, <<OtherIx(<< >>)>>}, c \in Around }
        \cup { a \o <<p[2], p[1]>> \o c : p \in Pairs, a \in Around, c \in Around }
        \cup { a \o <<fin>> : a \in Around, fin \in Finalizes }

MCTransactions == Crafted \cup Miscounted \cup Rearranged

=============================================================================
