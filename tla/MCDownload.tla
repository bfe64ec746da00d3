---- MODULE MCDownload ----
EXTENDS Download
CONSTANTS A, B, C

MCRanking == <<<<A, C>>, <<C, B>>, <<B, A, C>>>>
MCAddressOrder == <<B, C, A>>
File(v, cs, k) == [row |-> v, cids |-> cs, kept |-> k]
MCWanted == {File(None, <<1, 2>>, {}), File(None, <<1, 1>>, {}), File(None, <<1, 2>>, {1}),
            File(None, <<>>, {}), File(0, <<1, 2, 3>>, {}), File(0, <<1, 2, 2>>, {}),
            File(0, <<1, 2>>, {1}), File(0, <<>>, {}), File(1, <<1, 2, 3>>, {}),
            File(1, <<>>, {}), File(2, <<1>>, {})}
====
