\* Two contents, one of them a picture, uploaded twice or more and downloaded.
\* The system may rest: nobody has to upload anything.
CONSTANTS
  Uploaders = {u1, u2}
  Downloaders = {d1}
  Paths = {report, photo}
  Images = {photo}
  MaxParts = 2
  MaxRequests = 2
SPECIFICATION AttachmentsSpec
INVARIANTS
  FilesBehindRows
  SentWhole
PROPERTIES
  UploadsEnd
CHECK_DEADLOCK FALSE
