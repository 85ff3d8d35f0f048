------------------------ MODULE MCParagraphStructure ------------------------
\* Three paragraphs, the first of which cannot be deleted.
EXTENDS ParagraphStructure

MCProtected == {0}
MCNamed == {0}
=============================================================================
