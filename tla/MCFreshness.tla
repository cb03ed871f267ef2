---------------------------- MODULE MCFreshness ----------------------------
EXTENDS Freshness, TLC

Public == [NoCacheControl EXCEPT !.public = TRUE, !.maxAge = 1]
Plain(cc) == [cc |-> cc, expires |-> None, etag |-> TRUE, lastMod |-> None,
              status |-> "default", authorization |-> FALSE]

MCAnswers == {
    Plain(Public),
    Plain([Public EXCEPT !.private = "fields", !.must = "proxy"]),
    Plain([Public EXCEPT !.private = "all"]),
    [Plain(NoCacheControl) EXCEPT !.lastMod = -20],
    [Plain([NoCacheControl EXCEPT !.sMaxAge = 1]) EXCEPT
        !.expires = 3, !.etag = FALSE, !.authorization = TRUE, !.status = "storeable"] }

Ask == [piped |-> FALSE, auth |-> FALSE, onlyIfCached |-> FALSE,
        maxAge |-> None, minFresh |-> None, maxStale |-> None]
MCRequests == {
    Ask, [Ask EXCEPT !.auth = TRUE],
    [Ask EXCEPT !.piped = TRUE],
    [Ask EXCEPT !.onlyIfCached = TRUE, !.maxStale = Invalid],
    [Ask EXCEPT !.onlyIfCached = TRUE, !.maxAge = 1, !.maxStale = 1],
    [Ask EXCEPT !.onlyIfCached = TRUE, !.minFresh = 1] }

Symmetry == Permutations(Clients)
=============================================================================
