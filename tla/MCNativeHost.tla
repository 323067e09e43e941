---------------------------- MODULE MCNativeHost ----------------------------
(***************************************************************************)
(* Two builds in one document root, two threads beside the bridge, two     *)
(* polls of the watchdog, two blocks, two pings with one bit of            *)
(* identifier, requests of up to three bytes that declare a negative       *)
(* length, none, one byte or one that overflows, two calls of open() with  *)
(* two tabs and two origins, and all patterns of up to four characters     *)
(* with some longer ones.                                                  *)
(***************************************************************************)
EXTENDS NativeHost, TLC

UpTo(S, n) == UNION {[1..k -> S] : k \in 0..n}

MCLower == ("a" :> "a") @@ ("A" :> "a") @@ ("." :> ".") @@ ("*" :> "*")

LongPatterns == {
    <<"a", ".", "*", "*", ".", "a">>, <<"*", ".", "*", "*", ".", "a">>, <<"a", "*", "*", "*", "a">>,
    <<"a", "*", "a", "*", "a">>, <<"*", "*", ".", "A", ".", "*", "*">>, <<"a", ".", "*", "*", ".">>,
    <<"*", "*", ".", "*", "a">>, <<"a", ".", "a", ".", "*", "*">>,
    <<"*", "a", "*", "*", ".", "a">>}

MCPatterns == UpTo({"a", "A", ".", "*"}, 4) \cup LongPatterns
MCHosts == UpTo({"a", "."}, 3) \cup {<<"A", ".", "a">>, <<"a", ".", "a", "A">>, <<"a", ".", "a", ".", "a">>, <<"a", ".", "a", ".", "a", ".", "a">>}
MCPatternLists == UNION {[1..k -> {<<"*", "*">>, <<"*", "a">>, <<"a">>, <<"A">>, <<"*", ".", "a">>,
                                    <<"*", "*", ".", "a">>, <<"a", ".", "a">>, <<"a", ".", "*">>}] : k \in 0..2}

MCTexts == UpTo({"x", "y", " "}, 5)
MCNeedles == UpTo({"x", "y"}, 2) \ {<<>>}
MCSubstitutes == {<<"z">>, <<"z", "w">>}

\* Two addresses of one origin, and another.
MCPages == {"a/1", "a/2", "b"}
MCOrigin == ("a/1" :> "a/1") @@ ("a/2" :> "a/1") @@ ("b" :> "b")

MCDeclared == {-1, 0, 1, 6}

MCPackets == UpTo({0, 77, 255}, 4)
MCIdentifiers == {0, 255, 65535}
==============================================================================
