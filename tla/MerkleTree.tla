---------------------------- MODULE MerkleTree ----------------------------
(***************************************************************************)
(* The append-only Merkle tree of merkle_tree/tree.rs.  Head keeps the     *)
(* leaf count, the index of the largest power of two not above it, and the *)
(* root; append_leaf either puts a new root above the old one (the count   *)
(* is a power of two) or walks insert_node down the right spine, wrapping  *)
(* the right child whose size is a power of two and recomputing the hash   *)
(* of every node on the way back up.                                       *)
(*                                                                         *)
(* sha256 of the two child hashes is modelled as pairing them, which is     *)
(* collision free like the hash is assumed to be: a node's hash is the     *)
(* shape of the tree below it as the node last saw it, so a hash that was  *)
(* not recomputed after a change below stays visibly stale.                *)
(***************************************************************************)
EXTENDS Naturals, Sequences

CONSTANTS POW_LEN,      \* entries of the POW_OF_TWO table (30)
          Commitments,  \* leaf values appended
          MaxAppends    \* bound on the number of append_leaf calls

(* Option<Rc<RefCell<Node>>>: <<>> is None, <<n>> is Some(n) *)
None == <<>>
Some(n) == <<n>>
(* A 32-byte commitment c is the one-element sequence <<c>>, and a node  *)
(* hash the pair of its children's hashes, so hashes of leaves and of    *)
(* inner nodes never coincide.                                           *)
Digest(c) == <<c>>
ZeroLeaf == Digest(0)   \* Node::new_leaf([0; HASH_LENGTH]) of Head::new

(* POW_OF_TWO[i] = 2^i for i < POW_LEN *)
POW == [i \in 0..POW_LEN-1 |-> 2^i]

Hash(a, b) == <<a, b>>

new_leaf(h) == [hash |-> h, l |-> None, r |-> None]

new_node(l, r) == [hash |-> Hash(l.hash, r.hash), l |-> Some(l), r |-> Some(r)]

(* Mutant: the hash of a node is left as it was *)
recompute_hash_skip(nd) == nd

recompute_hash(nd) ==
    IF nd.l # None /\ nd.r # None
    THEN [nd EXCEPT !.hash = Hash(nd.l[1].hash, nd.r[1].hash)]
    ELSE nd

(* A right child that is a leaf where a subtree was expected: the panics *)
(* "r should not be None" and "oh no"                                    *)
PanicNode == [hash |-> "panic", l |-> None, r |-> None]

(* insert_node(leaf_cnt, index, new_comm) on node nd: scan i from        *)
(* index-1 down to 0 for the first POW_OF_TWO[i] <= leaf_cnt; descend    *)
(* into the right child when it is smaller, wrap the right child with    *)
(* the new leaf when it is equal, then recompute the hash of nd.         *)
RECURSIVE insert_node(_, _, _, _)
insert_node(nd, leaf_cnt, index, new_comm) ==
    LET RECURSIVE Scan(_)
        Scan(i) ==
          IF i < 0 THEN nd
          ELSE IF leaf_cnt > POW[i]
               THEN IF nd.r = None THEN PanicNode
                    ELSE recompute_hash([nd EXCEPT !.r =
                           Some(insert_node(nd.r[1], leaf_cnt - POW[i], i, new_comm))])
          ELSE IF leaf_cnt = POW[i]
               THEN IF nd.r = None THEN PanicNode
                    ELSE recompute_hash([nd EXCEPT !.r = Some(new_node(nd.r[1], new_comm))])
          ELSE Scan(i - 1)
    IN Scan(index - 1)

(* Mutant: the index moves up only once the count passes the next power *)
NextPowIndGreater(ind, cnt) == IF cnt > POW[ind + 1] THEN ind + 1 ELSE ind

(* if self.leaf_cnt >= POW_OF_TWO[self.pow_of_two_ind+1] { ind += 1 } *)
NextPowInd(ind, cnt) == IF cnt >= POW[ind + 1] THEN ind + 1 ELSE ind

VARIABLES leaf_cnt,        \* Head.leaf_cnt
          pow_of_two_ind,  \* Head.pow_of_two_ind
          root,            \* Head.root
          leaves,          \* the commitments appended so far (history)
          panicked         \* append_leaf panicked (index out of bounds)

vars == <<leaf_cnt, pow_of_two_ind, root, leaves, panicked>>

(* Head::new *)
Init ==
    /\ leaf_cnt = 1
    /\ pow_of_two_ind = 0
    /\ root = new_leaf(ZeroLeaf)
    /\ leaves = <<>>
    /\ panicked = FALSE

(* Head::append_leaf(commitment); the tree and the count change before   *)
(* the bound check on POW_OF_TWO[pow_of_two_ind+1] panics                 *)
append_leaf(c) ==
    /\ ~panicked
    /\ Len(leaves) < MaxAppends
    /\ LET right_leaf_cnt == leaf_cnt - POW[pow_of_two_ind]
           new_commitment == new_leaf(Digest(c))
       IN root' = IF right_leaf_cnt = 0
                  THEN new_node(root, new_commitment)
                  ELSE insert_node(root, right_leaf_cnt, pow_of_two_ind,
                                   new_commitment)
    /\ leaf_cnt' = leaf_cnt + 1
    /\ IF pow_of_two_ind + 1 < POW_LEN
       THEN /\ pow_of_two_ind' = NextPowInd(pow_of_two_ind, leaf_cnt')
            /\ UNCHANGED panicked
       ELSE /\ panicked' = TRUE
            /\ UNCHANGED pow_of_two_ind
    /\ leaves' = Append(leaves, c)

Next == \E c \in Commitments : append_leaf(c)

Spec == Init /\ [][Next]_vars

-----------------------------------------------------------------------------
(* The reference: the Merkle tree hash of RFC 6962 over a non-empty list, *)
(* split at the largest power of two below its length.                    *)
LargestPow2Below(n) == CHOOSE p \in {2^e : e \in 0..n} : p < n /\ 2 * p >= n

RECURSIVE MTH(_)
MTH(s) ==
    IF Len(s) = 1 THEN s[1]
    ELSE LET k == LargestPow2Below(Len(s))
         IN Hash(MTH(SubSeq(s, 1, k)), MTH(SubSeq(s, k + 1, Len(s))))

(* After any sequence of append_leaf calls the root hash is the Merkle   *)
(* tree hash of the initial zero leaf followed by the commitments in the *)
(* order appended: insert_node found the right place and every hash on   *)
(* the path was recomputed.                                              *)
RootIsMTH ==
    ~panicked => root.hash = MTH(<<ZeroLeaf>> \o [k \in 1..Len(leaves) |-> Digest(leaves[k])])

(* The comment on Head.pow_of_two_ind (tree.rs 29):                      *)
(* POW_OF_TWO[ind] <= leaf_cnt < POW_OF_TWO[ind+1], which append_leaf's  *)
(* right_leaf_cnt and insert_node's scan rely on.                        *)
PowIndexBracket ==
    pow_of_two_ind + 1 < POW_LEN =>
        POW[pow_of_two_ind] <= leaf_cnt /\ leaf_cnt < POW[pow_of_two_ind + 1]

(* append_leaf never panics: the demo's main loop appends 100000 leaves  *)
(* and expects the tree to keep growing.                                 *)
AppendNeverPanics == ~panicked
====
