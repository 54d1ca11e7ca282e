---------------------------- MODULE MCConversation ----------------------------
(***************************************************************************)
(* The instance of Dialogue in MCDialogue, and beside it the phrases that   *)
(* its language understanding is checked on: an initial state either starts *)
(* the conversations or holds a phrase.                                     *)
(***************************************************************************)
EXTENDS MCDialogue, Phrases

ConversationInit ==
    /\ DialogueInit
    /\ phrase = NoPhrase \/ PhraseInit

ConversationNext ==
    /\ phrase = NoPhrase
    /\ DialogueNext
    /\ UNCHANGED phrase

ConversationSpec ==
    ConversationInit /\ [][ConversationNext]_<<dialogueVars, phrase>>
=============================================================================
