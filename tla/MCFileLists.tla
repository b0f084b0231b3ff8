----------------------------- MODULE MCFileLists -----------------------------
(***************************************************************************)
(* Small instances of FileLists: two ordinary files and one with a line    *)
(* break in its name; answers without tags, with the tags in pairs, and    *)
(* with a tag that is not closed or was not opened; a summary of the core  *)
(* that is tidy, and one that lists a file twice and a tag.                *)
(***************************************************************************)
EXTENDS FileLists

MCPaths == {<<"a">>, <<"b">>, <<"b", "c">>}

MCNameOrder ==
  <<<<Closing["modified"]>>, <<Closing["read"]>>, <<Opening["modified"]>>,
    <<Opening["read"]>>, <<"a">>, <<"b">>, <<"b", "c">>, <<"c">>,
    <<Heading>>, <<Prose>>>>

Block(kind, lines) == <<Opening[kind]>> \o lines \o <<Closing[kind]>>

MCAnswers ==
  {<<"text">>,
   Block("modified", <<"a">>) \o <<"text">>
     \o Block("modified", <<"a">>) \o Block("read", <<"b">>),
   <<"text", Opening["modified"]>>,
   <<Opening["read"], "text", Closing["modified"]>>}

MCCoreSummaries ==
  {<<"text">> \o Block("read", <<"a", "">>),
   Block("read", <<"a">>) \o Block("modified", <<"a", Closing["read"]>>)}
=============================================================================
