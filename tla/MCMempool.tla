----------------------------- MODULE MCMempool ------------------------------
(***************************************************************************)
(* An instance of Mempool: the first sender bids twice for its first nonce *)
(* (11 is just enough over 10, and 10 not over 11) and has two later       *)
(* nonces, one beyond the gap until the first is used; the second sender   *)
(* bids twice for one nonce.  Transactions of size 3 do not fit a block.   *)
(***************************************************************************)
EXTENDS Mempool

Tx(s, n, f, z) == [sender |-> s, nonce |-> n, fee |-> f, size |-> z]

MCTxs == {Tx(1, 0, 10, 1), Tx(1, 0, 11, 3), Tx(1, 1, 10, 1), Tx(1, 2, 11, 1),
          Tx(2, 0, 10, 3), Tx(2, 0, 11, 1)}
=============================================================================
