----------------------------- MODULE MCServing -----------------------------
EXTENDS Serving, TLC

CONSTANTS p, q, pub, priv, old, stray

MCRow == pub :> "public" @@ priv :> "private" @@ old :> "legacy" @@ stray :> "none"

\* q first, so that p is on the second page; until n + 1 is expiry at height n.
MCLists == {<<>>, <<[peer |-> p, until |-> 1]>>, <<[peer |-> p, until |-> 0]>>,
            <<[peer |-> q, until |-> 0], [peer |-> p, until |-> 0]>>}

MCNodes == {[profile |-> "production", v2 |-> TRUE], [profile |-> "production", v2 |-> FALSE],
            [profile |-> "dev", v2 |-> TRUE]}

Req(proto, op, f) == [type |-> "request", proto |-> proto, op |-> op, file |-> f, peer |-> p]
ManifestPush(f, g) == [type |-> "request", proto |-> 2, op |-> "manifestpush", file |-> f,
                       peer |-> p, content |-> g]
MCEvents ==
  {Req(1, "push", priv), Req(1, "chunk", priv), Req(1, "chunk", old), Req(1, "manifest", stray),
   Req(2, "chunk", pub), Req(2, "manifest", priv), Req(2, "push", pub),
   Req(2, "push", priv),
   ManifestPush(priv, stray), ManifestPush(pub, pub), ManifestPush(pub, stray),
   [type |-> "identified", peer |-> p], [type |-> "gone", peer |-> p],
   [type |-> "data", asked |-> old], [type |-> "manifest", asked |-> pub, content |-> pub],
   [type |-> "manifest", asked |-> pub, content |-> stray]}
=============================================================================
