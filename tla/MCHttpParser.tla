---------------------------- MODULE MCHttpParser ----------------------------
(* Every text of up to three tokens as a query, with two longer ones; six values. *)
EXTENDS HttpParser

MCUris ==
    {<< "a" >>, << "?", "a", "=", "&", "a", "=", "a" >>, << "a", "?", "=", "?" >>}
      \cup {<< "?" >> \o query : query \in BoundedSeq({"a", "=", "&"}, 3)}

MCValues ==
    {<< >>, << "form" >>, << " ", "b", " " >>, << "a", "=", "=" >>, << ";", "a", "=", "b" >>,
     << " ", "a", "=", "b", " ", ";", " ", "a", "=", "a" >>}

MCBodies ==
    {<< >>, << "a" >>, << "a", "=", "b" >>, << "a", "=", "b", "&" >>,
     << "a", "=", "b", "&", "b", "=", "&", "a", "=" >>}
=============================================================================
