---------------------------- MODULE MCZdtmCodec -----------------------------
(***************************************************************************)
(* ZdtmCodec for TLC: the contents a program fills in, with the lengths at *)
(* the edges of their fields.                                              *)
(***************************************************************************)
EXTENDS ZdtmCodec

\* 0xdeadbeef, and an id whose upper half is zero.
Ids == {<<239, 190, 173, 222>>, <<5, 0, 0, 0>>}

Item(category, description, notes) ==
    [category_len |-> category, description_len |-> description, notes_len |-> notes]

Filled(type, len, id, variation, sync_type, item) ==
    [type |-> type, len |-> len, sync_id |-> id, variation |-> variation,
     sync_type |-> sync_type, category_len |-> item.category_len,
     description_len |-> item.description_len, notes_len |-> item.notes_len]

Lengths == [RRL |-> {0, 1, 4, 255, 256, 300}, RMS |-> {0, 5, 37, 38},
            RGE |-> {0, 1, 40, 65530}]

LengthsOf(type) == IF type \in DOMAIN Lengths THEN Lengths[type] ELSE {0}

\* Everything but items; AEX is no request.
Requests ==
    UNION {{Filled(type, len, id, 2, sync_type, Item(0, 0, 0)) :
              len \in LengthsOf(type), id \in Ids, sync_type \in {6, 7}} :
           type \in RequestTypes \cup {"AEX"}}

\* Items as the prepare test has them, and of four-byte strings.
Items ==
    {Filled("RDW", 0, <<5, 0, 0, 0>>, variation, sync_type, Item(4, text, text)) :
       variation \in {1, 3}, sync_type \in {6, 7}, text \in {4, 5}}

Variations ==
    {Filled("RDW", 0, <<5, 0, 0, 0>>, variation, 6, Item(4, 4, 4)) : variation \in 0..4}

Logs == {Filled("RMS", len, <<5, 0, 0, 0>>, 2, 6, Item(0, 0, 0)) : len \in {38, 39}}
=============================================================================
