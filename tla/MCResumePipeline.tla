-------------------------- MODULE MCResumePipeline --------------------------
(* Two bullets on a page with room for one more token, and a model that      *)
(* rewrites two bullets within the page, overflows it, repeats itself or     *)
(* makes up a bullet.  The other resumes: two entries whose long headers     *)
(* begin alike, one with an empty bullet, and a section that is left alone;  *)
(* a bullet without an entry header.                                         *)
EXTENDS ResumePipeline

MCBase == <<"S", "h", "c", "{", "}", "{", "a", "}", "I", "b", "end", "O">>
MCResumes == {<<"O", "I", "e", "S", "l", "I", "f", "l", "i", "{", "}">>,
              <<"S", "I", "f">>}

Rewrite(bullet, text) == [bullet |-> bullet, text |-> text]
MCOutputs ==
  {<<Rewrite(3, <<"n">>)>>,
   <<Rewrite(1, <<"{", "n", "}">>)>>,
   <<Rewrite(2, <<"n">>), Rewrite(1, <<"w", "&">>)>>,
   <<Rewrite(1, <<"n">>), Rewrite(1, <<"w">>)>>}

=============================================================================
