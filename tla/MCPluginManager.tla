-------------------------- MODULE MCPluginManager --------------------------
(* Three plug-ins: one that stages all three kinds of capability; one with  *)
(* the same name in its metadata, an action of the same name and a second   *)
(* listener that the bus rejects; and one for another API version.          *)
EXTENDS PluginManager

MCOrder == <<"mail", "mixed", "old">>
MCStaged == [p \in {"mail", "mixed", "old"} |->
               CASE p = "mail" -> <<"imap", "on mail", "send">>
                 [] p = "mixed" -> <<"feed", "on feed", "bad", "send">>
                 [] p = "old" -> <<"list">>]
MCMetaName == [p \in {"mail", "mixed", "old"} |-> IF p = "old" THEN "Old" ELSE "Mail"]
MCIntegrations == <<"feed", "github", "imap">>
=============================================================================
