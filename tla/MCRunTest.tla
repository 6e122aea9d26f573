-------------------------------- MODULE MCRunTest --------------------------------
(***************************************************************************)
(* Tests of the kinds that run_test tells apart, in two directories, and   *)
(* lists of two of them where one can bear on the other.            *)
(***************************************************************************)
EXTENDS RunTest

CONSTANTS here, there,                    \* directories
          common, asksEnv,                \* SKIPIF scripts
          plain, dbg, dbgExt, headers, empty, broken, gzip, skipHere, skipThere,
          envSet, envUnset, leaky, redir, redirNone, sub, subRedir

MCTests == {plain, dbg, dbgExt, headers, empty, broken, gzip, skipHere, skipThere,
            envSet, envUnset, leaky, redir, redirNone, sub, subRedir}

Plain == [parses |-> TRUE, dir |-> here, sapi |-> "cli", repeatable |-> TRUE, zlib |-> FALSE,
          extensions |-> "none", SKIPIF |-> None, ENV |-> FALSE, redirect |-> "no", inner |-> {},
          request |-> "none", CLEAN |-> FALSE, EXPECTHEADERS |-> FALSE, flaky |-> FALSE,
          XFAIL |-> FALSE, XLEAK |-> FALSE]

MCT == [u \in MCTests |->
  CASE u = plain -> [Plain EXCEPT !.CLEAN = TRUE, !.flaky = TRUE]
    [] u = dbg -> [Plain EXCEPT !.sapi = "phpdbg", !.flaky = TRUE, !.SKIPIF = common]
    [] u = dbgExt -> [Plain EXCEPT !.sapi = "phpdbg", !.extensions = "loaded"]
    [] u = headers -> [Plain EXCEPT !.sapi = "cgi", !.request = "body", !.EXPECTHEADERS = TRUE]
    [] u = empty -> [Plain EXCEPT !.sapi = "cgi", !.request = "empty", !.dir = there]
    [] u = broken -> [Plain EXCEPT !.parses = FALSE, !.dir = there]
    [] u = gzip -> [Plain EXCEPT !.sapi = "cgi", !.zlib = TRUE, !.dir = there]
    [] u = skipHere -> [Plain EXCEPT !.SKIPIF = common, !.repeatable = FALSE]
    [] u = skipThere -> [Plain EXCEPT !.SKIPIF = common, !.dir = there]
    [] u = envSet -> [Plain EXCEPT !.SKIPIF = asksEnv, !.ENV = TRUE]
    [] u = envUnset -> [Plain EXCEPT !.SKIPIF = asksEnv, !.XFAIL = TRUE]
    [] u = leaky -> [Plain EXCEPT !.XLEAK = TRUE, !.dir = there]
    [] u = redir -> [Plain EXCEPT !.redirect = "TESTS", !.inner = {sub, subRedir},
                                  !.extensions = "loaded"]
    [] u = redirNone -> [Plain EXCEPT !.redirect = "empty"]
    [] u = sub -> [Plain EXCEPT !.dir = there, !.SKIPIF = common, !.extensions = "missing"]
    [] u = subRedir -> [Plain EXCEPT !.dir = there, !.redirect = "TESTS"]]

All(tests) == {<<u, None>> : u \in tests}
MCLists ==
  {All(l) : l \in {{plain, dbg}, {headers, dbgExt}, {empty, headers}, {broken, leaky},
                   {gzip, skipThere}, {skipHere, skipThere}, {envSet, envUnset},
                   {redir, skipThere}, {redirNone, leaky}}}
  \cup {{<<redir, sub>>, <<skipHere, None>>}, {<<plain, sub>>}, {<<redirNone, sub>>}}

Everything == [cgi |-> TRUE, phpdbg |-> TRUE, zlib |-> TRUE, valgrind |-> FALSE,
               preload |-> TRUE, repeat |-> FALSE, no_clean |-> FALSE]
MCOptions ==
  {Everything,
   [Everything EXCEPT !.zlib = FALSE, !.valgrind = TRUE, !.preload = FALSE, !.no_clean = TRUE],
   [Everything EXCEPT !.cgi = FALSE, !.phpdbg = FALSE, !.repeat = TRUE]}

\* What a redirection without TESTS leaves behind.
OneRedirection == {All({redirNone, redir})}
=============================================================================
