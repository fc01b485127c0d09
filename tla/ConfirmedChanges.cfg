SPECIFICATION Spec
CONSTANTS
  Item <- MCItem
  NoItem = NoItem
  Tools = {"approve_draft", "approve_payment_draft", "reject_payment_draft", "edit_payment_draft", "send_whatsapp_message"}
  MaxCalls = 2
INVARIANTS
  TypeOK
  ChangeIsAuthorised
  AnswerIsTrue
  OncePerCall
  ApprovedAtMostOnce
  SentMeansSent
