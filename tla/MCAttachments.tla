---------------------------- MODULE MCAttachments ----------------------------
EXTENDS Attachments
===============================================================================
