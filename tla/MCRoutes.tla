------------------------------ MODULE MCRoutes ------------------------------
(***************************************************************************)
(* Small instances of Routes for TLC.                                      *)
(***************************************************************************)
EXTENDS Routes

Url(scheme, host, extra, path, slashes) ==
  [scheme |-> scheme, host |-> host, extra |-> extra, path |-> path,
   slashes |-> slashes]

\* Accepted ones, with up to two slashes at the end; three have a path: a plain
\* one, one that looks like the start of a route, and one with a space.  Refused
\* ones for their scheme and for their userinfo.
SomeUrls == {Url("https", "remote", "none", <<>>, 2),
             Url("http", "loopback", "none", <<>>, 0),
             Url("https", "remote", "none", <<"/", "b">>, 1),
             Url("https", "remote", "none", <<"/", "v1", "/", "projects">>, 0),
             Url("https", "remote", "none", <<"/", "a", " ">>, 0),
             Url("http", "remote", "none", <<>>, 0),
             Url("https", "remote", "userinfo", <<"/", "b">>, 0)}

\* Valid ones (at most two pieces for a project, three for a key), a word of the
\* routes, and every way to be invalid.
SomeNames == {<<"a">>, <<"secrets">>, <<"a", "b">>, <<"a", "b", "a">>, <<"a", ".">>,
              <<>>, <<"a", "/", "secrets", "?">>,
              <<"a", "#">>, <<"%61">>, <<"%2F">>, <<"a", " ">>,
              <<"a", "b", "a", "b">>}
=============================================================================
