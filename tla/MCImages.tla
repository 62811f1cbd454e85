------------------------------- MODULE MCImages -------------------------------
(***************************************************************************)
(* Registries with a dot, a port, or both; paths of one to three parts;    *)
(* tags with and without dots; a digest with its colon.                    *)
(***************************************************************************)
EXTENDS Images

MCHosts ==
  {<<"ghcr", ".", "io">>, <<"registry", ":", "5000">>,
   <<"reg", ".", "example", ":", "443">>}

\* One path part is called as a registry is, where it is no registry.
MCPaths ==
  {<<"app">>, <<"team", "/", "app">>, <<"team", "/", "localhost", "/", "app">>}

MCTagTexts == {<<"stable">>, <<"1", ".", "9">>, <<"1", ".", "10">>}

MCDigest == <<"sha256", ":", "d1">>
=============================================================================
